---- MODULE Spec2Model ----
(***************************************************************************)
(* Model of the MDTF preprocessing pipeline (src/src/preprocessor.py):     *)
(* MDTFPreprocessorBase and its two variants SingleFilePreprocessor and    *)
(* DaskMultiFilePreprocessor, with the transforms CropDateRangeFunction    *)
(* and ExtractLevelFunction.                                               *)
(*                                                                         *)
(* Representation.                                                         *)
(*  - A dataset (xarray.Dataset) is a record                               *)
(*      data_vars : function  variable name -> tuple of dimension names    *)
(*      coords    : function  dimension name -> tuple of coordinate values *)
(*      attrs     : the global attribute dict, a tuple of [k, v] items in  *)
(*                  insertion order                                        *)
(*      decoded   : TRUE once xr.decode_cf has produced the dataset        *)
(*  - Timestamps are ordinals year * DaysPerYear + day; every time axis of *)
(*    an input file is strictly increasing (CF time coordinate).           *)
(*  - Pressure values are counted in units of 1/LevScale hPa, so that a    *)
(*    requested level need not be a whole number of hPa.                   *)
(*  - Strings whose characters matter (attribute keys and values) are      *)
(*    tuples of one-character strings.                                     *)
(***************************************************************************)
EXTENDS Integers, Sequences, FiniteSets, TLC

\* ------------------------------------------------------------------ bounds
\* timestamps per calendar year at the data's native frequency
DaysPerYear == 2
\* largest number of source files of one variable
MaxFiles == 2
\* pressure is counted in units of 1/LevScale hPa
LevScale == 2

\* the calendar years of the model: 1999, 2000, 2001 counted from 1999
Years == {0, 1, 2}
Ordinals == 0 .. (Cardinality(Years) * DaysPerYear - 1)

None == "None"

\* ------------------------------------------------------- sequence helpers
Range(s) == {s[i] : i \in DOMAIN s}

RECURSIVE SeqOfSet(_)
\* the elements of a finite set of integers in increasing order
SeqOfSet(S) ==
    IF S = {} THEN <<>>
    ELSE LET m == CHOOSE x \in S : \A y \in S : x <= y
         IN <<m>> \o SeqOfSet(S \ {m})

IsStrictlyIncreasing(s) == \A i, j \in DOMAIN s : i < j => s[i] < s[j]

\* pandas Index.is_monotonic_increasing: non-strict
is_monotonic_increasing(s) == \A i, j \in DOMAIN s : i < j => s[i] <= s[j]

RECURSIVE Flatten(_)
Flatten(ss) == IF ss = <<>> THEN <<>> ELSE Head(ss) \o Flatten(Tail(ss))

\* ----------------------------------------------------- attribute handling
\* str.strip(): leading and trailing whitespace removed
RECURSIVE lstrip(_)
lstrip(s) == IF s # <<>> /\ Head(s) = " " THEN lstrip(Tail(s)) ELSE s

RECURSIVE rstrip(_)
rstrip(s) ==
    IF s # <<>> /\ s[Len(s)] = " " THEN rstrip(SubSeq(s, 1, Len(s) - 1)) ELSE s

\* mutant: only trailing whitespace is removed
strip_trailing(s) == rstrip(s)

strip(s) == lstrip(rstrip(s))

\* an attribute value: a str (isstr) or any other type, both shown by chars
Str(s) == [isstr |-> TRUE, s |-> s]
NonStr(s) == [isstr |-> FALSE, s |-> s]

_strip(v) == IF v.isstr THEN [v EXCEPT !.s = strip(v.s)] ELSE v

\* dict item assignment d[k] = v on an insertion-ordered dict
DictSet(d, k, v) ==
    IF \E i \in DOMAIN d : d[i].k = k
    THEN [i \in DOMAIN d |-> IF d[i].k = k THEN [k |-> k, v |-> v] ELSE d[i]]
    ELSE Append(d, [k |-> k, v |-> v])

RECURSIVE StripItems(_, _)
StripItems(d, acc) ==
    IF d = <<>> THEN acc
    ELSE StripItems(Tail(d), DictSet(acc, _strip(Head(d).k), _strip(Head(d).v)))

\* {_strip(k): _strip(v) for k,v in d.items()}
_strip_dict(d) == StripItems(d, <<>>)

\* ------------------------------------------------------------ dict helpers
EmptyDict == [x \in {} |-> None]

\* d[k] = v on a dict whose keys are plain names (ax_names, data_vars, coords)
Put(f, k, v) == [x \in DOMAIN f \cup {k} |-> IF x = k THEN v ELSE f[x]]

Drop(f, k) == [x \in DOMAIN f \ {k} |-> f[x]]

\* 'k' in d  and  d['k']  on an attribute dict
HasKey(d, k) == \E i \in DOMAIN d : d[i].k = k

GetKey(d, k) == d[CHOOSE i \in DOMAIN d : d[i].k = k].v

\* outcome of a call: the value returned, or the exception raised
NoError == [type |-> None, dataset |-> None, msg |-> None]

\* the value of a name bound to no dataset
NoDataset ==
    [data_vars |-> EmptyDict, coords |-> EmptyDict, axis |-> EmptyDict,
     attrs |-> <<>>, var_attrs |-> EmptyDict, time_calendar |-> NonStr(<<None>>),
     decoded |-> FALSE]

Ok(ds) == [ok |-> TRUE, ds |-> ds, err |-> NoError]

\* DataPreprocessError(dataset, msg=''), or any other exception type
Raise(type, dataset, msg) ==
    [ok |-> FALSE, ds |-> NoDataset,
     err |-> [type |-> type, dataset |-> dataset, msg |-> msg]]

\* ----------------------------------------------------- dates and requests
\* a python datetime, by the fields of its timetuple()
datetime(year, yday) == [tm_year |-> year, tm_yday |-> yday]

\* a date given to year precision: lower is jan 1, upper is dec 31
YearDate(y) == [lower |-> datetime(y, 0), upper |-> datetime(y, DaysPerYear - 1)]

\* a date given to day precision
DayDate(y, d) == [lower |-> datetime(y, d), upper |-> datetime(y, d)]

\* the cftime.datetime with the fields of dt, as the ordinal of its day
cast_to_cftime(dt, calendar) == dt.tm_year * DaysPerYear + dt.tm_yday

\* ------------------------------------------------------ xarray operations
\* Index.searchsorted(x, side='left' / 'right') on a monotonic index
searchsorted_left(idx, x) == Cardinality({i \in DOMAIN idx : idx[i] < x})

searchsorted_right(idx, x) == Cardinality({i \in DOMAIN idx : idx[i] <= x})

\* mutant: the end label is exclusive, as in a positional slice
slice_indexer_half_open(idx, lo, hi) ==
    SubSeq(idx, searchsorted_left(idx, lo) + 1, searchsorted_left(idx, hi))

\* the positions idx.slice_indexer(lo, hi) keeps: both labels inclusive
slice_indexer(idx, lo, hi) ==
    SubSeq(idx, searchsorted_left(idx, lo) + 1, searchsorted_right(idx, hi))

\* ds.sel(dim=slice(lo, hi))
sel_slice(ds, dim, lo, hi) ==
    [ds EXCEPT !.coords[dim] = slice_indexer(ds.coords[dim], lo, hi)]

\* a tuple without its entries equal to x
Without(s, x) == SelectSeq(s, LAMBDA e : e # x)

\* ds.sel(dim=value): the dimension becomes a scalar coordinate
sel_value(ds, dim, value) ==
    [ds EXCEPT !.coords[dim] = <<value>>,
               !.data_vars = [n \in DOMAIN ds.data_vars |->
                                 Without(ds.data_vars[n], dim)]]

\* ds.rename({old: new})
rename(ds, old, new) ==
    [ds EXCEPT !.data_vars = Put(Drop(ds.data_vars, old), new, ds.data_vars[old]),
               !.var_attrs = Put(Drop(ds.var_attrs, old), new, ds.var_attrs[old])]

\* xr.decode_cf(ds, ...).metpy.parse_cf(): a new, CF-decoded dataset
decode_cf(ds) == [ds EXCEPT !.decoded = TRUE]

\* what parse_cf_wrapper does to the dataset object it is handed: the
\* global and the per-variable attributes are replaced by stripped ones
strip_attrs(ds) ==
    [ds EXCEPT !.attrs = _strip_dict(ds.attrs),
               !.var_attrs = [n \in DOMAIN ds.var_attrs |->
                                 _strip_dict(ds.var_attrs[n])]]

\* what parse_cf_wrapper returns
parse_cf_wrapper(ds) == decode_cf(strip_attrs(ds))

\* ------------------------------------------------- CropDateRangeFunction
\* mutant: the dataset's start is compared with the lower bound of the start
crop_time_axis_start_lower(ds, ax_names, calendar, date_range, v) ==
    IF "T" \notin DOMAIN ax_names THEN Ok(ds)
    ELSE
      LET dt_start_lower == cast_to_cftime(date_range.start.lower, calendar)
          dt_end_lower == cast_to_cftime(date_range.end.lower, calendar)
          dt_end_upper == cast_to_cftime(date_range.end.upper, calendar)
          time_ax == ds.coords[ax_names["T"]]
      IN  IF time_ax = <<>> THEN Raise("IndexError", None, "values[0]")
          ELSE IF time_ax[1] > dt_start_lower
            THEN Raise("DataPreprocessError", "v", "dataset start is after range start")
          ELSE IF time_ax[Len(time_ax)] < dt_end_lower
            THEN Raise("DataPreprocessError", "v", "dataset end is before range end")
          ELSE Ok(sel_slice(ds, ax_names["T"], dt_start_lower, dt_end_upper))

crop_time_axis(ds, ax_names, calendar, date_range, v) ==
    IF "T" \notin DOMAIN ax_names THEN Ok(ds)
    ELSE
      LET dt_start_lower == cast_to_cftime(date_range.start.lower, calendar)
          dt_start_upper == cast_to_cftime(date_range.start.upper, calendar)
          dt_end_lower == cast_to_cftime(date_range.end.lower, calendar)
          dt_end_upper == cast_to_cftime(date_range.end.upper, calendar)
          time_ax == ds.coords[ax_names["T"]]
      IN  IF time_ax = <<>> THEN Raise("IndexError", None, "values[0]")
          ELSE IF time_ax[1] > dt_start_upper
            THEN Raise("DataPreprocessError", "v", "dataset start is after range start")
          ELSE IF time_ax[Len(time_ax)] < dt_end_lower
            THEN Raise("DataPreprocessError", "v", "dataset end is before range end")
          ELSE Ok(sel_slice(ds, ax_names["T"], dt_start_lower, dt_end_upper))

\* ---------------------------------------------------- ExtractLevelFunction
\* int(x) of a pressure given in units of 1/LevScale hPa
int(x) == x \div LevScale

\* p_level * units.hPa in the units of the coordinate axis
hPa(p_level) == p_level * LevScale

\* mutant: with no pressure requested the first level of the file is taken
extract_level_unguarded(ds, ax_names, v) ==
    IF "Z" \notin DOMAIN ax_names THEN Ok(ds)
    ELSE
      LET Z == ax_names["Z"]
          var == ax_names["var"]
          p_level == IF "pressure" \in DOMAIN v.scalar_coordinates
                     THEN int(v.scalar_coordinates["pressure"])
                     ELSE IF Z \in DOMAIN ds.coords /\ ds.coords[Z] # <<>>
                     THEN int(ds.coords[Z][1])
                     ELSE 0
      IN  IF Z \notin DOMAIN ds.coords \/ hPa(p_level) \notin Range(ds.coords[Z])
          THEN Raise("DataPreprocessError", "Pressure axis of file didn't provide requested level", "")
          ELSE IF var \notin DOMAIN ds.data_vars
                  \/ (var \o ToString(p_level)) \in DOMAIN ds.data_vars
          THEN Raise("ValueError", None, "cannot rename")
          ELSE Ok(rename(sel_value(ds, Z, hPa(p_level)), var, var \o ToString(p_level)))

extract_level(ds, ax_names, v) ==
    IF "Z" \notin DOMAIN ax_names \/ "pressure" \notin DOMAIN v.scalar_coordinates
    THEN Ok(ds)
    ELSE
      LET p_level == int(v.scalar_coordinates["pressure"])
          Z == ax_names["Z"]
          var == ax_names["var"]
      IN  IF Z \notin DOMAIN ds.coords \/ hPa(p_level) \notin Range(ds.coords[Z])
          THEN \* KeyError: the one-argument raise leaves msg at its default
               Raise("DataPreprocessError", "Pressure axis of file didn't provide requested level", "")
          ELSE IF var \notin DOMAIN ds.data_vars
                  \/ (var \o ToString(p_level)) \in DOMAIN ds.data_vars
          THEN Raise("ValueError", None, "cannot rename")
          ELSE Ok(rename(sel_value(ds, Z, hPa(p_level)), var, var \o ToString(p_level)))

\* --------------------------------------------------- the transform hooks
Crop == "CropDateRangeFunction"
Extract == "ExtractLevelFunction"

\* func.process_static_dataset(ds, **kwargs)
func_process_static_dataset(func, ds, self) == Ok(ds)

\* mutant: no transform acts at per-file granularity
func_process_file_pass(func, ds, self) == Ok(ds)

\* func.process_file(ds, **kwargs)
func_process_file(func, ds, self) ==
    IF func = Extract THEN extract_level(ds, self.ax_names, self.v) ELSE Ok(ds)

\* func.process_dataset(ds, **kwargs)
func_process_dataset(func, ds, self) ==
    IF func = Crop
    THEN crop_time_axis(ds, self.ax_names, self.calendar, self.date_range, self.v)
    ELSE Ok(ds)

\* func.parse(ds, **kwargs): both transforms pass
func_parse(func, ds, self) == Ok(ds)

\* ---------------------------------------------------- MDTFPreprocessorBase
SingleFile == "SingleFilePreprocessor"
DaskMultiFile == "DaskMultiFilePreprocessor"
Samplemodeldata == "SamplemodeldataPreprocessor"
Mdtfdata == "MdtfdataPreprocessor"

IsSingleFile(cls) == cls \in {SingleFile, Samplemodeldata}

_default_functions(cls) ==
    CASE cls = Samplemodeldata -> <<Crop>>
      [] cls = Mdtfdata -> <<Crop, Extract>>
      [] OTHER -> <<>>

RECURSIVE InsertSorted(_, _)
\* f placed after every entry whose key is not larger: the sort is stable
InsertSorted(f, sorted) ==
    IF sorted = <<>> THEN <<f>>
    ELSE IF f.date_range_start < Head(sorted).date_range_start
         THEN <<f>> \o sorted
         ELSE <<Head(sorted)>> \o InsertSorted(f, Tail(sorted))

RECURSIVE SortedByStart(_, _)
SortedByStart(fs, acc) ==
    IF fs = <<>> THEN acc
    ELSE SortedByStart(Tail(fs), InsertSorted(Head(fs), acc))

\* __init__: self.files
init_files(remote_data) ==
    IF Len(remote_data) > 1 THEN SortedByStart(remote_data, <<>>)
    ELSE remote_data

\* mutant: the caller's transforms come before the default ones
init_functions_extras_first(cls, functions) == functions \o _default_functions(cls)

\* __init__: self.functions
init_functions(cls, functions) == _default_functions(cls) \o functions

\* ds[var].ndim
ndim(ds, var) == Len(ds.data_vars[var])

\* util.MultiMap(d): a dict whose values are sets
MultiMap(d) == [k \in DOMAIN d |-> {d[k]}]

\* MultiMap.values()
values(mm) == {mm[k] : k \in DOMAIN mm}

\* MultiMap.inverse: for every value the set of keys that hold it
inverse(mm) == [val \in UNION values(mm) |-> {k \in DOMAIN mm : val \in mm[k]}]

\* MultiMap.inverse_get_: the key itself if one key holds val, else the list
\* of the keys that do
inverse_get_(mm, val) ==
    LET temp == inverse(mm)[val]
    IN  IF Cardinality(temp) = 1
        THEN [isstr |-> TRUE, s |-> CHOOSE k \in temp : TRUE, list |-> {}]
        ELSE [isstr |-> FALSE, s |-> None, list |-> temp]

\* util.coerce_from_iter: the element of a collection of one element
coerce_from_iter(x) == IF Cardinality(x) = 1 THEN CHOOSE e \in x : TRUE ELSE 0

\* max(iterable, key=key)
max(S, key(_)) == CHOOSE x \in S : \A y \in S : key(y) <= key(x)

\* mutant: of several variables of the largest rank one is taken
_find_var_name_guess(ds, expected_name) ==
    IF expected_name \in DOMAIN ds.data_vars THEN expected_name
    ELSE IF DOMAIN ds.data_vars = {} THEN None
    ELSE LET dim_lookup == MultiMap([var \in DOMAIN ds.data_vars |-> ndim(ds, var)])
             d_max == coerce_from_iter(max(values(dim_lookup), coerce_from_iter))
         IN  CHOOSE k \in inverse(dim_lookup)[d_max] : TRUE

\* parse_axes._find_var_name: the name found, or None for the ValueError
\* "Couldn't determine var"
_find_var_name(ds, expected_name) ==
    IF expected_name \in DOMAIN ds.data_vars THEN expected_name
    ELSE IF DOMAIN ds.data_vars = {} THEN None
    ELSE LET dim_lookup == MultiMap([var \in DOMAIN ds.data_vars |-> ndim(ds, var)])
             d_max == coerce_from_iter(max(values(dim_lookup), coerce_from_iter))
             var_name == inverse_get_(dim_lookup, d_max)
         IN  IF ~var_name.isstr THEN None ELSE var_name.s

\* parse_axes._metpy_lookup: the name of the variable's axis, or None
_metpy_lookup(ds, var_name, metpy_attr) ==
    LET found == {d \in Range(ds.data_vars[var_name]) :
                     d \in DOMAIN ds.axis /\ ds.axis[d] = metpy_attr}
    IN  IF found = {} THEN None ELSE CHOOSE d \in found : TRUE

metpy_attrs == <<[k |-> "X", v |-> "x"], [k |-> "Y", v |-> "y"],
                 [k |-> "Z", v |-> "vertical"], [k |-> "T", v |-> "time"]>>

RECURSIVE LookupAxes(_, _, _, _)
LookupAxes(ds, var_name, todo, ax_names) ==
    IF todo = <<>> THEN ax_names
    ELSE LET ax_name == _metpy_lookup(ds, var_name, Head(todo).v)
         IN  LookupAxes(ds, var_name, Tail(todo),
                        IF ax_name # None THEN Put(ax_names, Head(todo).k, ax_name)
                        ELSE ax_names)

\* the orders in which iterating over a set of strings may yield it
Enumerations(S) ==
    {e \in [1 .. Cardinality(S) -> S] : \A i, j \in DOMAIN e : i # j => e[i] # e[j]}

\* mutant: every other axis is stored under the one tag W0
LabelOthers_one_tag(e, i, ax_names) ==
    IF e = <<>> THEN ax_names ELSE Put(ax_names, "W0", e[Len(e)])

RECURSIVE LabelOthers(_, _, _)
LabelOthers(e, i, ax_names) ==
    IF i > Len(e) THEN ax_names
    ELSE LabelOthers(e, i + 1, Put(ax_names, "W" \o ToString(i - 1), e[i]))

\* parse_axes: the outcomes it can have, each the value left in self.ax_names
parse_axes(ds, name_in_model, ax_names) ==
    LET var_name == _find_var_name(ds, name_in_model)
    IN  IF var_name = None
        THEN {[ok |-> FALSE, ax_names |-> ax_names,
               err |-> [type |-> "ValueError", dataset |-> None,
                        msg |-> "Couldn't determine var"]]}
        ELSE LET named == LookupAxes(ds, var_name, metpy_attrs,
                                     Put(ax_names, "var", var_name))
                 other_axes == Range(ds.data_vars[var_name])
                                 \ {named[k] : k \in DOMAIN named}
             IN  {[ok |-> TRUE, ax_names |-> LabelOthers(e, 1, named),
                   err |-> NoError] : e \in Enumerations(other_axes)}

\* python truth value of self.calendar: None and '' are false
Truthy(calendar) == calendar.isstr /\ calendar.s # <<>>

PyNone == NonStr(<<None>>)

\* str.lower() on the calendar names of the model
lower(s) == [i \in DOMAIN s |-> IF s[i] = "NOLEAP" THEN "noleap" ELSE s[i]]

\* parse_calendar._check_backup_location
_check_backup_location(calendar, dict_) ==
    IF ~Truthy(calendar) /\ HasKey(dict_, Str(<<"calendar">>))
    THEN Str(strip(lower(GetKey(dict_, Str(<<"calendar">>)).s)))
    ELSE calendar

\* parse_calendar: the value left in self.calendar, and whether it raised
parse_calendar(ds, ax_names, convention) ==
    LET time == ax_names["T"]
        first == IF ds.decoded THEN ds.time_calendar ELSE PyNone
        backup == _check_backup_location(
                      _check_backup_location(
                          _check_backup_location(first, ds.var_attrs[time]),
                          ds.attrs),
                      convention)
        calendar == IF first = PyNone THEN backup ELSE first
    IN  IF ds.coords[time] = <<>>
        THEN [ok |-> FALSE, calendar |-> PyNone,
              err |-> [type |-> "IndexError", dataset |-> None, msg |-> "values[0]"]]
        ELSE IF calendar = PyNone
        THEN [ok |-> FALSE, calendar |-> calendar,
              err |-> [type |-> "ValueError", dataset |-> None,
                       msg |-> "No calendar info in file."]]
        ELSE [ok |-> TRUE, calendar |-> calendar, err |-> NoError]

\* one hook of every transform in chain order, each on the result of the one
\* before it; calls lists the transforms whose hook was invoked
RECURSIVE RunHooks(_, _, _, _, _)
RunHooks(Hook(_, _, _), funcs, ds, self, calls) ==
    IF funcs = <<>> THEN [ok |-> TRUE, ds |-> ds, err |-> NoError, calls |-> calls]
    ELSE LET r == Hook(Head(funcs), ds, self)
         IN  IF r.ok
             THEN RunHooks(Hook, Tail(funcs), r.ds, self, Append(calls, Head(funcs)))
             ELSE [ok |-> FALSE, ds |-> NoDataset, err |-> r.err,
                   calls |-> Append(calls, Head(funcs))]

\* mutant: the static branch invokes no hook
process_static_dataset_skipped(xr_dataset, self) ==
    [ok |-> TRUE, ds |-> xr_dataset, err |-> NoError, calls |-> <<>>]

\* process_static_dataset: the hooks run, what they return is dropped
process_static_dataset(xr_dataset, self) ==
    LET r == RunHooks(func_process_static_dataset, self.functions, xr_dataset,
                      self, <<>>)
    IN  IF r.ok THEN [r EXCEPT !.ds = xr_dataset] ELSE r

process_file(xr_dataset, self) ==
    RunHooks(func_process_file, self.functions, parse_cf_wrapper(xr_dataset),
             self, <<>>)

process_dataset(xr_dataset, self) ==
    RunHooks(func_process_dataset, self.functions, xr_dataset, self, <<>>)

\* ------------------------------------------------ xr.open_mfdataset merge
\* utils.dict_equiv: the same items, in any order
dict_equiv(a, b) == Range(a) = Range(b)

\* mutant: compat="override", attributes are taken from the first dataset
identical_override(a, b, dim) ==
    /\ a.data_vars = b.data_vars
    /\ DOMAIN a.coords = DOMAIN b.coords
    /\ \A d \in DOMAIN a.coords : d # dim => a.coords[d] = b.coords[d]

\* compat="identical" and join="exact": everything that is not concatenated
\* along dim is the same in a and b
identical(a, b, dim) ==
    /\ a.data_vars = b.data_vars
    /\ dict_equiv(a.attrs, b.attrs)
    /\ DOMAIN a.var_attrs = DOMAIN b.var_attrs
    /\ \A n \in DOMAIN a.var_attrs : dict_equiv(a.var_attrs[n], b.var_attrs[n])
    /\ DOMAIN a.coords = DOMAIN b.coords
    /\ \A d \in DOMAIN a.coords : d # dim => a.coords[d] = b.coords[d]

RECURSIVE InsertByCoord_descending(_, _, _)
\* mutant: the datasets are ordered by decreasing first value
InsertByCoord_descending(x, sorted, dim) ==
    IF sorted = <<>> THEN <<x>>
    ELSE IF x.coords[dim][1] > Head(sorted).coords[dim][1]
         THEN <<x>> \o sorted
         ELSE <<Head(sorted)>> \o InsertByCoord_descending(x, Tail(sorted), dim)

RECURSIVE InsertByCoord(_, _, _)
InsertByCoord(x, sorted, dim) ==
    IF sorted = <<>> THEN <<x>>
    ELSE IF x.coords[dim][1] < Head(sorted).coords[dim][1]
         THEN <<x>> \o sorted
         ELSE <<Head(sorted)>> \o InsertByCoord(x, Tail(sorted), dim)

RECURSIVE OrderByCoord(_, _, _)
\* combine="by_coords": the datasets ordered by the first value of their index
OrderByCoord(dss, acc, dim) ==
    IF dss = <<>> THEN acc
    ELSE OrderByCoord(Tail(dss), InsertByCoord(Head(dss), acc, dim), dim)

\* the combine step of open_mfdataset on the per-file datasets
combine_by_coords(dss, dim) ==
    IF Len(dss) = 1 THEN Ok(dss[1])
    ELSE IF \E i \in DOMAIN dss : dim \notin DOMAIN dss[i].coords
                                   \/ dss[i].coords[dim] = <<>>
    THEN Raise("ValueError", None, "no coordinate to order the datasets by")
    ELSE IF \E i \in DOMAIN dss : ~identical(dss[1], dss[i], dim)
    THEN Raise("ValueError", None, "datasets are not identical")
    ELSE IF \A i \in DOMAIN dss : dss[i].coords[dim] = dss[1].coords[dim]
    THEN Raise("ValueError", None, "no coordinate to order the datasets by")
    ELSE LET ordered == OrderByCoord(dss, <<>>, dim)
             index == Flatten([i \in DOMAIN ordered |-> ordered[i].coords[dim]])
         IN  IF ~is_monotonic_increasing(index)
             THEN Raise("ValueError", None, "global index is not monotonic")
             ELSE Ok([ordered[1] EXCEPT !.coords[dim] = index])

\* ---------------------------------------------------------------- state
VARIABLES
    cls,          \* the preprocessor class of the run
    v,            \* self.v, the variable descriptor
    date_range,   \* self.date_range, the requested analysis period
    convention,   \* self.convention
    files,        \* self.files
    functions,    \* self.functions, by class name
    ax_names,     \* self.ax_names
    calendar,     \* self.calendar
    ds,           \* the local ds of preprocess()
    mf,           \* open_mfdataset: per file, whether opened and its dataset
    handles,      \* the dataset handles that are open
    dest,         \* the file at self.v.dest_path
    pc,           \* the position of preprocess()
    err,          \* the exception preprocess() raised
    log,          \* the calls made so far, in order
    nc,           \* a call of NcoNetcdfHelper.nc_crop_time_axis and its files
    util          \* a call of util.run_command, and the PathManager

vars == <<cls, v, date_range, convention, files, functions, ax_names, calendar,
          ds, mf, handles, dest, pc, err, log, nc, util>>

self == [ax_names |-> ax_names, calendar |-> calendar, date_range |-> date_range,
         v |-> v, convention |-> convention, files |-> files,
         functions |-> functions]

\* the handle of the first file as opened for parsing; file i has handle i
Probe == 0

\* in the call log: the call was made on the dataset of the whole run
AllFiles == 0

\* an entry of the call log
Ev(op, func, file) == [op |-> op, func |-> func, file |-> file]

Calls(op, calls, file) == [i \in DOMAIN calls |-> Ev(op, calls[i], file)]

NoFile == [exists |-> FALSE, ds |-> NoDataset, format |-> None, writes |-> 0]

\* mutant: the handle stays open
close_skipped(open, h) == open

\* ds.close() on the handle h
close(open, h) == open \ {h}

\* mutant: any non-empty file list passes
assert_some_file(fs) == Len(fs) >= 1

\* assert len(self.files) == 1
assert_one_file(fs) == Len(fs) = 1

\* mutant: the exception is caught and recorded, and the run goes on to write
Propagate_caught(e) ==
    /\ pc' = "processed"
    /\ err' = e

\* the exception leaves preprocess(): nothing catches it
Propagate(e) ==
    /\ pc' = "failed"
    /\ err' = e

\* ------------------------------------------------------------- preprocess
\* xr.open_dataset(self.files[0].local_path, ...), after the single-file
\* variant's assert
Open ==
    /\ pc = "start"
    /\ IF IsSingleFile(cls) /\ ~assert_one_file(files)
       THEN /\ Propagate([type |-> "AssertionError", dataset |-> None,
                          msg |-> "len(self.files) == 1"])
            /\ UNCHANGED <<ds, handles, log>>
       ELSE IF ~files[1].readable
       THEN /\ Propagate([type |-> "OSError", dataset |-> None,
                          msg |-> "cannot open file"])
            /\ log' = Append(log, Ev("open_dataset", None, 1))
            /\ UNCHANGED <<ds, handles>>
       ELSE /\ ds' = files[1].content
            /\ handles' = handles \cup {Probe}
            /\ log' = Append(log, Ev("open_dataset", None, 1))
            /\ pc' = "opened"
            /\ err' = err
    /\ UNCHANGED <<util, nc, cls, v, date_range, convention, files, functions,
                   ax_names, calendar, mf, dest>>

\* self.parse(ds): parse_cf_wrapper, parse_axes, parse_calendar, func.parse
Parse ==
    /\ pc = "opened"
    /\ LET xr_dataset == parse_cf_wrapper(ds)
       IN  \E a \in parse_axes(xr_dataset, v.name_in_model, ax_names) :
             LET c == IF a.ok /\ "T" \in DOMAIN a.ax_names
                      THEN parse_calendar(xr_dataset, a.ax_names, convention)
                      ELSE [ok |-> a.ok, calendar |-> calendar, err |-> a.err]
                 h == RunHooks(func_parse, functions, xr_dataset,
                               [self EXCEPT !.ax_names = a.ax_names,
                                            !.calendar = c.calendar], <<>>)
             IN  /\ ax_names' = a.ax_names
                 /\ calendar' = c.calendar
                 \* the attributes of the caller's dataset were replaced in place
                 /\ ds' = strip_attrs(ds)
                 /\ log' = log \o <<Ev("self.parse", None, 1),
                                    Ev("parse_cf_wrapper", None, 1),
                                    Ev("parse_axes", None, 1)>>
                               \o (IF a.ok /\ "T" \in DOMAIN a.ax_names
                                   THEN <<Ev("parse_calendar", None, 1)>> ELSE <<>>)
                               \o (IF c.ok THEN Calls("parse", h.calls, 1) ELSE <<>>)
                 /\ IF ~c.ok THEN Propagate(c.err)
                    ELSE IF ~h.ok THEN Propagate(h.err)
                    ELSE pc' = "parsed" /\ err' = err
    /\ UNCHANGED <<util, nc, cls, v, date_range, convention, files, functions, mf,
                   handles, dest>>

\* mutant: the static branch does not look at the number of files
ProcessStatic_unchecked ==
    /\ pc = "parsed"
    /\ v.date_range.is_static
    /\ LET r == process_static_dataset(ds, self)
       IN  /\ log' = log \o <<Ev("self.process_static_dataset", None, 1)>>
                         \o Calls("process_static_dataset", r.calls, 1)
           /\ IF r.ok THEN ds' = r.ds /\ pc' = "processed" /\ err' = err
              ELSE Propagate(r.err) /\ ds' = ds
    /\ UNCHANGED <<util, nc, cls, v, date_range, convention, files, functions,
                   ax_names, calendar, mf, handles, dest>>

\* the static branch: ds = self.process_static_dataset(ds)
ProcessStatic ==
    /\ pc = "parsed"
    /\ v.date_range.is_static
    /\ IF ~IsSingleFile(cls) /\ ~assert_one_file(files)
       THEN /\ Propagate([type |-> "AssertionError", dataset |-> None,
                          msg |-> "len(self.files) == 1"])
            /\ UNCHANGED <<ds, log>>
       ELSE LET r == process_static_dataset(ds, self)
            IN  /\ log' = log \o <<Ev("self.process_static_dataset", None, 1)>>
                              \o Calls("process_static_dataset", r.calls, 1)
                /\ IF r.ok THEN ds' = r.ds /\ pc' = "processed" /\ err' = err
                   ELSE Propagate(r.err) /\ ds' = ds
    /\ UNCHANGED <<util, nc, cls, v, date_range, convention, files, functions,
                   ax_names, calendar, mf, handles, dest>>

\* single-file variant, time-dependent branch: ds = self.process_file(ds)
ProcessFile ==
    /\ pc = "parsed"
    /\ ~v.date_range.is_static
    /\ IsSingleFile(cls)
    /\ LET r == process_file(ds, self)
       IN  /\ log' = log \o <<Ev("self.process_file", None, 1),
                              Ev("parse_cf_wrapper", None, 1)>>
                         \o Calls("process_file", r.calls, 1)
           /\ IF r.ok THEN ds' = r.ds /\ pc' = "file_done" /\ err' = err
              ELSE Propagate(r.err) /\ ds' = strip_attrs(ds)
    /\ UNCHANGED <<util, nc, cls, v, date_range, convention, files, functions,
                   ax_names, calendar, mf, handles, dest>>

\* multi-file variant, time-dependent branch: ds.close(), then the arguments
\* of xr.open_mfdataset are evaluated
CloseProbe ==
    /\ pc = "parsed"
    /\ ~v.date_range.is_static
    /\ ~IsSingleFile(cls)
    /\ handles' = close(handles, Probe)
    /\ log' = Append(log, Ev("close", None, 1))
    /\ IF "T" \notin DOMAIN ax_names
       THEN /\ Propagate([type |-> "KeyError", dataset |-> None, msg |-> "T"])
            /\ mf' = mf
       ELSE /\ mf' = [i \in DOMAIN files |-> [done |-> FALSE, ds |-> NoDataset]]
            /\ pc' = "merging"
            /\ err' = err
    /\ UNCHANGED <<util, nc, cls, v, date_range, convention, files, functions,
                   ax_names, calendar, ds, dest>>

\* xr.open_mfdataset with parallel=True: one of the files not yet opened is
\* opened and handed to preprocess=self.process_file
OpenMfFile ==
    /\ pc = "merging"
    /\ \E i \in DOMAIN files :
         /\ ~mf[i].done
         /\ IF ~files[i].readable
            THEN /\ Propagate([type |-> "OSError", dataset |-> None,
                               msg |-> "cannot open file"])
                 /\ log' = Append(log, Ev("open_dataset", None, i))
                 /\ UNCHANGED <<mf, handles>>
            ELSE LET r == process_file(files[i].content, self)
                 IN  /\ handles' = handles \cup {i}
                     /\ log' = log \o <<Ev("open_dataset", None, i),
                                        Ev("self.process_file", None, i),
                                        Ev("parse_cf_wrapper", None, i)>>
                                   \o Calls("process_file", r.calls, i)
                     /\ IF r.ok
                        THEN /\ mf' = [mf EXCEPT ![i] = [done |-> TRUE, ds |-> r.ds]]
                             /\ pc' = pc
                             /\ err' = err
                        ELSE Propagate(r.err) /\ mf' = mf
    /\ UNCHANGED <<util, nc, cls, v, date_range, convention, files, functions,
                   ax_names, calendar, ds, dest>>

\* xr.open_mfdataset: every file is opened and processed; they are combined
Combine ==
    /\ pc = "merging"
    /\ \A i \in DOMAIN files : mf[i].done
    /\ LET r == combine_by_coords([i \in DOMAIN files |-> mf[i].ds], ax_names["T"])
       IN  /\ log' = Append(log, Ev("combine", None, AllFiles))
           /\ IF r.ok THEN ds' = r.ds /\ pc' = "merged" /\ err' = err
              ELSE Propagate(r.err) /\ ds' = ds
    /\ UNCHANGED <<util, nc, cls, v, date_range, convention, files, functions,
                   ax_names, calendar, mf, handles, dest>>

\* mutant: process_dataset is entered before the per-file phase
ProcessDataset_before_files ==
    /\ pc \in {"parsed", "file_done", "merged"}
    /\ ~v.date_range.is_static
    /\ LET r == process_dataset(ds, self)
       IN  /\ log' = log \o <<Ev("self.process_dataset", None, AllFiles)>>
                         \o Calls("process_dataset", r.calls, AllFiles)
           /\ IF r.ok THEN ds' = r.ds /\ pc' = "processed" /\ err' = err
              ELSE Propagate(r.err) /\ ds' = ds
    /\ UNCHANGED <<util, nc, cls, v, date_range, convention, files, functions,
                   ax_names, calendar, mf, handles, dest>>

\* time-dependent branch: ds = self.process_dataset(ds)
ProcessDataset ==
    /\ pc \in {"file_done", "merged"}
    /\ LET r == process_dataset(ds, self)
       IN  /\ log' = log \o <<Ev("self.process_dataset", None, AllFiles)>>
                         \o Calls("process_dataset", r.calls, AllFiles)
           /\ IF r.ok THEN ds' = r.ds /\ pc' = "processed" /\ err' = err
              ELSE Propagate(r.err) /\ ds' = ds
    /\ UNCHANGED <<util, nc, cls, v, date_range, convention, files, functions,
                   ax_names, calendar, mf, handles, dest>>

\* ds.to_netcdf(path=self.v.dest_path, mode='w', format="NETCDF3_64BIT")
Write ==
    /\ pc = "processed"
    /\ dest' = [exists |-> TRUE, ds |-> ds, format |-> "NETCDF3_64BIT",
                writes |-> dest.writes + 1]
    /\ log' = Append(log, Ev("to_netcdf", None, AllFiles))
    /\ pc' = "written"
    /\ UNCHANGED <<util, nc, cls, v, date_range, convention, files, functions,
                   ax_names, calendar, ds, mf, handles, err>>

\* mutant: the run returns without closing its dataset
Close_leaking ==
    /\ pc = "written"
    /\ ds' = NoDataset
    /\ log' = Append(log, Ev("close", None, AllFiles))
    /\ pc' = "done"
    /\ UNCHANGED <<util, nc, cls, v, date_range, convention, files, functions,
                   ax_names, calendar, mf, dest, err, handles>>

\* ds.close(); del ds
Close ==
    /\ pc = "written"
    /\ handles' = {}
    /\ ds' = NoDataset
    /\ log' = Append(log, Ev("close", None, AllFiles))
    /\ pc' = "done"
    /\ UNCHANGED <<util, nc, cls, v, date_range, convention, files, functions,
                   ax_names, calendar, mf, dest, err>>

\* ---------------------------------------------------------- run_command
\* errno.ETIME
ETIME == 62

\* the character '\0' of a command's output
NUL == "NUL"

RECURSIVE split(_, _)
\* str.split(sep) for a separator of one character
split(s, sep) ==
    IF \A i \in DOMAIN s : s[i] # sep THEN <<s>>
    ELSE LET i == CHOOSE k \in DOMAIN s : s[k] = sep /\ \A l \in 1 .. k - 1 : s[l] # sep
         IN  <<SubSeq(s, 1, i - 1)>> \o split(SubSeq(s, i + 1, Len(s)), sep)

\* str.splitlines(): no empty last line after a final newline
splitlines(s) ==
    LET parts == split(s, "\n")
    IN  IF parts[Len(parts)] = <<>> THEN SubSeq(parts, 1, Len(parts) - 1) ELSE parts

\* what run_command returns for the stdout it collected
stdout_lines(stdout) ==
    IF \E i \in DOMAIN stdout : stdout[i] = NUL THEN split(stdout, NUL)
    ELSE splitlines(stdout)

\* mutant: only positive exit codes count as failures
raises_on_positive(retcode) == retcode > 0

\* if retcode != 0: raise subprocess.CalledProcessError
raises(retcode) == retcode # 0

\* no call of run_command is under way
CmdIdle ==
    [pc |-> "idle", launchable |-> TRUE, exit |-> 0, stdout |-> <<>>, duration |-> 0,
     io_error |-> FALSE, timeout |-> 0, proc |-> None, retcode |-> 1,
     alarm |-> FALSE, fired |-> FALSE, killed |-> FALSE, result |-> <<>>,
     err |-> None]

\* PathManager.__init__: self._temp_dirs = []; no directory made yet
PathsIdle == [pc |-> "idle", _temp_dirs |-> <<>>, dirs |-> {}, made |-> {},
              err |-> None]

UtilIdle == [cmd |-> CmdIdle, paths |-> PathsIdle]

\* subprocess.Popen(command, ...) and signal.alarm(int(timeout)): an
\* executable that cannot be launched raises, which "except Exception" turns
\* into retcode 1
Popen ==
    /\ util.cmd.pc = "idle"
    /\ util' = [util EXCEPT !.cmd =
                  IF ~util.cmd.launchable
                  THEN [@ EXCEPT !.pc = "check", !.retcode = 1]
                  ELSE [@ EXCEPT !.pc = "communicate", !.proc = "running",
                                 !.alarm = (util.cmd.timeout > 0)]]
    /\ UNCHANGED <<nc, cls, v, date_range, convention, files, functions, ax_names,
                   calendar, ds, mf, handles, dest, pc, err, log>>

\* proc.communicate() returns before the alarm is due: signal.alarm(0),
\* retcode = proc.returncode; or it raises and the process is killed
Communicate ==
    /\ util.cmd.pc = "communicate"
    /\ ~util.cmd.alarm \/ util.cmd.duration <= util.cmd.timeout
    /\ util' = [util EXCEPT !.cmd =
                  IF util.cmd.io_error
                  THEN [@ EXCEPT !.pc = "check", !.proc = "killed", !.killed = TRUE]
                  ELSE [@ EXCEPT !.pc = "check", !.proc = "exited", !.alarm = FALSE,
                                 !.retcode = util.cmd.exit]]
    /\ UNCHANGED <<nc, cls, v, date_range, convention, files, functions, ax_names,
                   calendar, ds, mf, handles, dest, pc, err, log>>

\* SIGALRM arrives while the command runs: _timeout_handler raises
\* TimeoutAlarm, the handler kills the process and sets retcode = errno.ETIME
Timeout ==
    /\ util.cmd.pc = "communicate"
    /\ util.cmd.alarm /\ util.cmd.duration >= util.cmd.timeout
    /\ util' = [util EXCEPT !.cmd = [@ EXCEPT !.pc = "check", !.fired = TRUE,
                                              !.alarm = FALSE,
                                              !.proc = "killed", !.killed = TRUE,
                                              !.retcode = ETIME]]
    /\ UNCHANGED <<nc, cls, v, date_range, convention, files, functions, ax_names,
                   calendar, ds, mf, handles, dest, pc, err, log>>

\* the exit: CalledProcessError, or the lines of stdout
Return ==
    /\ util.cmd.pc = "check"
    /\ util' = [util EXCEPT !.cmd =
                  IF raises(util.cmd.retcode)
                  THEN [@ EXCEPT !.pc = "raised", !.err = "CalledProcessError"]
                  ELSE [@ EXCEPT !.pc = "returned",
                                 !.result = stdout_lines(util.cmd.stdout)]]
    /\ UNCHANGED <<nc, cls, v, date_range, convention, files, functions, ax_names,
                   calendar, ds, mf, handles, dest, pc, err, log>>

\* ---------------------------------------------------------- PathManager
\* the most temporary directories registered at one time
MaxDirs == 3

\* the strings passed as hash_obj
HashObjs == {"a", "b"}

\* the random endings tempfile.mkdtemp chooses from
Suffixes == {"x1", "x2", "x3"}

\* rm_tempdir(path), for a registered path: self._temp_dirs.remove(path),
\* shutil.rmtree(path)
rm_tempdir(p, path) ==
    LET i == CHOOSE k \in DOMAIN p._temp_dirs :
                 p._temp_dirs[k] = path /\ \A l \in 1 .. k - 1 : p._temp_dirs[l] # path
    IN  [p EXCEPT !._temp_dirs = SubSeq(@, 1, i - 1) \o SubSeq(@, i + 1, Len(@)),
                  !.dirs = @ \ {path}]

RECURSIVE cleanup(_, _)
\* for d in self._temp_dirs: self.rm_tempdir(d) -- the list iterator is at
\* position i of the list as it is now (i counts from 1)
cleanup(p, i) ==
    IF i > Len(p._temp_dirs) THEN p
    ELSE cleanup(rm_tempdir(p, p._temp_dirs[i]), i + 1)

\* PathManager.make_tempdir(hash_obj): mkdtemp makes a directory that did not
\* exist; a string names the directory, which is made unless it exists; a
\* directory already registered fails the assertion
MakeTempdir ==
    /\ util.paths.pc = "idle"
    /\ Len(util.paths._temp_dirs) < MaxDirs
    /\ \E new_dir \in {<<"MDTF_temp_", s>> : s \in Suffixes \cup HashObjs} :
         /\ new_dir[2] \in Suffixes => new_dir \notin util.paths.dirs
         /\ util' = [util EXCEPT !.paths =
                       IF \E k \in DOMAIN util.paths._temp_dirs :
                              util.paths._temp_dirs[k] = new_dir
                       THEN [@ EXCEPT !.err = "AssertionError"]
                       ELSE [@ EXCEPT !.dirs = @ \cup {new_dir},
                                      !.made = @ \cup {new_dir},
                                      !._temp_dirs = Append(@, new_dir),
                                      !.err = None]]
    /\ UNCHANGED <<nc, cls, v, date_range, convention, files, functions, ax_names,
                   calendar, ds, mf, handles, dest, pc, err, log>>

\* PathManager.rm_tempdir(path), called with a path make_tempdir returned
RmTempdir ==
    /\ util.paths.pc = "idle"
    /\ \E path \in util.paths.made :
         util' = [util EXCEPT !.paths =
                    IF \E k \in DOMAIN util.paths._temp_dirs :
                           util.paths._temp_dirs[k] = path
                    THEN [rm_tempdir(@, path) EXCEPT !.err = None]
                    ELSE [@ EXCEPT !.err = "AssertionError"]]
    /\ UNCHANGED <<nc, cls, v, date_range, convention, files, functions, ax_names,
                   calendar, ds, mf, handles, dest, pc, err, log>>

\* PathManager.cleanup()
Cleanup ==
    /\ util.paths.pc = "idle"
    /\ util' = [util EXCEPT !.paths = [cleanup(@, 1) EXCEPT !.pc = "cleaned",
                                                           !.err = None]]
    /\ UNCHANGED <<nc, cls, v, date_range, convention, files, functions, ax_names,
                   calendar, ds, mf, handles, dest, pc, err, log>>

\* ------------------------------------------------------ NcoNetcdfHelper
\* the name of the temporary output file
Temp == "MDTF_temp.nc"

\* a path that holds no file
Absent == [exists |-> FALSE, whole |-> FALSE, time |-> <<>>]

\* a netCDF file with the given time axis
NcFile(time) == [exists |-> TRUE, whole |-> TRUE, time |-> time]

\* no call of nc_crop_time_axis is under way
NcIdle ==
    [pc |-> "idle", in_file |-> None, out_file |-> None, working_dir |-> None,
     move_back |-> FALSE, start |-> 0, end |-> 0, cwd |-> "rundir",
     saved_cwd |-> None, orig |-> Absent, err |-> None,
     fs |-> [d \in {"rundir", "workdir"} |-> [n \in {"in.nc", "out.nc", Temp} |-> Absent]]]

\* ncks -d time,start,end: the hyperslab of the coordinate values from start
\* to end, both included
ncks_hyperslab(time, start, end) == SelectSeq(time, LAMBDA t : start <= t /\ t <= end)

\* what ncks --no_tmp_fl -O may leave at out_file: the hyperslab if it exits
\* with 0; if it exits with an error, the path as it was or, since it writes
\* to out_file directly, a file it did not finish
ncks(in, old, start, end) ==
    IF ~in.exists THEN {[retcode |-> 1, out |-> old]}
    ELSE {[retcode |-> 0, out |-> NcFile(ncks_hyperslab(in.time, start, end))],
          [retcode |-> 1, out |-> old],
          [retcode |-> 1, out |-> [exists |-> TRUE, whole |-> FALSE, time |-> <<>>]]}

\* nc_crop_time_axis, lines 59-65: the defaults of out_file and working_dir
NcCall ==
    /\ nc.pc = "idle"
    /\ nc' = [nc EXCEPT !.pc = "called",
                        !.out_file = IF @ = None THEN Temp ELSE @,
                        !.move_back = (nc.out_file = None),
                        !.working_dir = IF @ = None THEN nc.cwd ELSE @]
    /\ UNCHANGED <<util, cls, v, date_range, convention, files, functions, ax_names,
                   calendar, ds, mf, handles, dest, pc, err, log>>

\* run_command(['ncks', ...], cwd=working_dir): CalledProcessError unless the
\* exit code is 0
NcRunCommand ==
    /\ nc.pc = "called"
    /\ LET dir == nc.fs[nc.working_dir]
       IN  \E r \in ncks(dir[nc.in_file], dir[nc.out_file], nc.start, nc.end) :
             nc' = [nc EXCEPT !.fs[nc.working_dir][nc.out_file] = r.out,
                              !.pc = IF r.retcode # 0 THEN "raised"
                                     ELSE IF nc.move_back THEN "ran" ELSE "returned",
                              !.err = IF r.retcode # 0 THEN "CalledProcessError"
                                      ELSE @]
    /\ UNCHANGED <<util, cls, v, date_range, convention, files, functions, ax_names,
                   calendar, ds, mf, handles, dest, pc, err, log>>

\* cwd = os.getcwd(); os.chdir(working_dir)
NcChdir ==
    /\ nc.pc = "ran"
    /\ nc' = [nc EXCEPT !.saved_cwd = nc.cwd, !.cwd = nc.working_dir,
                        !.pc = "chdir"]
    /\ UNCHANGED <<util, cls, v, date_range, convention, files, functions, ax_names,
                   calendar, ds, mf, handles, dest, pc, err, log>>

\* os.remove(in_file): the file is removed, or OSError leaves preprocess
NcRemove ==
    /\ nc.pc = "chdir"
    /\ \/ nc' = [nc EXCEPT !.fs[nc.cwd][nc.in_file] = Absent, !.pc = "removed"]
       \/ nc' = [nc EXCEPT !.pc = "raised", !.err = "OSError"]
    /\ UNCHANGED <<util, cls, v, date_range, convention, files, functions, ax_names,
                   calendar, ds, mf, handles, dest, pc, err, log>>

\* shutil.move(out_file, in_file): the file is moved, or the error leaves
NcMove ==
    /\ nc.pc = "removed"
    /\ \/ nc' = [nc EXCEPT !.fs[nc.cwd][nc.in_file] = nc.fs[nc.cwd][nc.out_file],
                           !.fs[nc.cwd][nc.out_file] = Absent,
                           !.pc = "moved"]
       \/ nc' = [nc EXCEPT !.pc = "raised", !.err = "OSError"]
    /\ UNCHANGED <<util, cls, v, date_range, convention, files, functions, ax_names,
                   calendar, ds, mf, handles, dest, pc, err, log>>

\* os.chdir(cwd)
NcChdirBack ==
    /\ nc.pc = "moved"
    /\ nc' = [nc EXCEPT !.cwd = nc.saved_cwd, !.pc = "returned"]
    /\ UNCHANGED <<util, cls, v, date_range, convention, files, functions, ax_names,
                   calendar, ds, mf, handles, dest, pc, err, log>>

\* --------------------------------------------------------------- inputs
Tas == "tas"

\* a source file's dataset as xr.open_dataset(decode_cf=False) returns it:
\* one data variable with the given dimensions
Dataset(dims, time, lev, lat, attrs, tas_attrs) ==
    [data_vars |-> (Tas :> dims),
     coords |-> [d \in Range(dims) |->
                    CASE d = "time" -> time [] d = "lev" -> lev [] OTHER -> lat],
     axis |-> [d \in Range(dims) |->
                  CASE d = "time" -> "time" [] d = "lev" -> "vertical"
                    [] OTHER -> "y"],
     attrs |-> attrs,
     var_attrs |-> [n \in {Tas} \cup Range(dims) |->
                       IF n = Tas THEN tas_attrs ELSE <<>>],
     time_calendar |-> Str(<<"noleap">>),
     decoded |-> FALSE]

\* a located source file; its date sub-range starts at its first timestamp
File(content, readable) ==
    [date_range_start |-> IF "time" \in DOMAIN content.coords
                             /\ content.coords["time"] # <<>>
                          THEN content.coords["time"][1] ELSE 0,
     content |-> content, readable |-> readable]

Item(k, s) == [k |-> Str(k), v |-> Str(s)]

DefaultAttrs == <<Item(<<"title">>, <<"a">>)>>

\* attribute dicts: padded and unpadded values and keys, and a value that is
\* no str
AttrChoices ==
    {DefaultAttrs,
     <<Item(<<"title">>, <<"a", " ">>)>>,
     <<Item(<<"title">>, <<"b">>)>>,
     <<Item(<<" ", "title">>, <<" ", "a", " ", "b", " ">>)>>,
     <<Item(<<"title">>, <<"a">>), Item(<<"title", " ">>, <<"b">>)>>,
     <<[k |-> Str(<<"n">>), v |-> NonStr(<<" ", "1">>)]>>}

TasAttrChoices == {<<>>, <<Item(<<"units">>, <<"K">>)>>, <<Item(<<"units">>, <<" ", "K">>)>>}

DefaultLat == <<0, 1>>

LatChoices == {DefaultLat, <<0, 1, 2>>}

\* the vertical levels of the model: 1 hPa, the next representable value, 2 hPa
Levels == {hPa(1), hPa(1) + 1, hPa(2)}

DefaultLev == <<hPa(1), hPa(2)>>

LevAxes == {SeqOfSet(S) : S \in SUBSET Levels \ {{}}}

\* the timestamps of year y
DaysOf(y) == SeqOfSet({y * DaysPerYear + d : d \in 0 .. DaysPerYear - 1})

\* longest time axis among the single files of the crop inputs
MaxTimeLen == 2

TimeAxes ==
    {SeqOfSet(S) : S \in {T \in SUBSET Ordinals : T # {} /\ Cardinality(T) <= MaxTimeLen}}

\* a file covering the middle of the first year through the middle of the last
ScenarioAxis ==
    SeqOfSet((DaysPerYear \div 2) .. (2 * DaysPerYear + DaysPerYear \div 2))

\* contiguous time sub-ranges of one or two timestamps
Blocks ==
    {<<a>> : a \in Ordinals} \cup {<<a, a + 1>> : a \in {x \in Ordinals : x + 1 \in Ordinals}}

Dates ==
    {YearDate(y) : y \in Years}
      \cup {DayDate(y, d) : y \in Years, d \in 0 .. DaysPerYear - 1}

Before(a, b) ==
    \/ a.tm_year < b.tm_year
    \/ a.tm_year = b.tm_year /\ a.tm_yday <= b.tm_yday

\* requested periods: the start date is not after the end date
DateRanges ==
    {r \in [start : Dates, end : Dates] :
        Before(r.start.lower, r.end.lower) /\ Before(r.start.upper, r.end.upper)}

\* the period the first n yearly files cover
Covered(n) == [start |-> YearDate(0), end |-> YearDate(n - 1)]

FirstYear == Covered(1)

MiddleYear == [start |-> YearDate(1), end |-> YearDate(1)]

NoScalar == EmptyDict

Pressure(p) == ("pressure" :> p)

Input(c, fs, rd, dr, static, sc, name) ==
    [cls |-> c, functions |-> fs, remote_data |-> rd, date_range |-> dr,
     is_static |-> static, scalar_coordinates |-> sc, name_in_model |-> name,
     convention |-> <<>>]

Plain(time) ==
    File(Dataset(<<"time", "lat">>, time, <<>>, DefaultLat, DefaultAttrs, <<>>), TRUE)

Levelled(time, lev) ==
    File(Dataset(<<"time", "lev", "lat">>, time, lev, DefaultLat, DefaultAttrs, <<>>),
         TRUE)

FileCounts == 1 .. MaxFiles

\* file k covers year k - 1
YearsOfFiles(n) == IF n <= Cardinality(Years) THEN n ELSE Cardinality(Years)

Classes == {SingleFile, DaskMultiFile, Samplemodeldata, Mdtfdata}

\* a second data variable of the same rank
TwoVars(content) ==
    [content EXCEPT !.data_vars = Put(content.data_vars, "ps", content.data_vars[Tas]),
                    !.var_attrs = Put(content.var_attrs, "ps", <<>>)]

\* a second data variable of lower rank
LowerRankVar(content) ==
    [content EXCEPT !.data_vars = Put(content.data_vars, "ps", <<"lat">>),
                    !.var_attrs = Put(content.var_attrs, "ps", <<>>)]

\* the variable has two more dimensions, which metpy does not classify
ExtraDims(content) ==
    [content EXCEPT
       !.data_vars = [n \in DOMAIN @ |->
                         IF n = Tas THEN @[n] \o <<"wavelength", "member">> ELSE @[n]],
       !.coords = Put(Put(@, "wavelength", <<0>>), "member", <<0>>),
       !.var_attrs = Put(Put(@, "wavelength", <<>>), "member", <<>>)]

\* time values that decode_cf leaves without a calendar
NoCalendar(content) == [content EXCEPT !.time_calendar = PyNone]

\* the state __init__ leaves
InitWith(in) ==
    /\ cls = in.cls
    /\ v = [name_in_model |-> in.name_in_model,
            date_range |-> [is_static |-> in.is_static],
            scalar_coordinates |-> in.scalar_coordinates,
            dest_path |-> "dest_path",
            remote_data |-> in.remote_data]
    /\ date_range = in.date_range
    /\ convention = in.convention
    /\ files = init_files(in.remote_data)
    /\ functions = init_functions(in.cls, in.functions)
    /\ ax_names = EmptyDict
    /\ calendar = PyNone
    /\ ds = NoDataset
    /\ mf = <<>>
    /\ handles = {}
    /\ dest = NoFile
    /\ pc = "start"
    /\ err = NoError
    /\ log = <<>>
    /\ nc = NcIdle
    /\ util = UtilIdle

\* one file, every time axis, every requested period
CropInputs ==
    \E t \in TimeAxes \cup {ScenarioAxis}, dr \in DateRanges :
      InitWith(Input(Samplemodeldata, <<>>, <<Plain(t)>>, dr, FALSE, NoScalar, Tas))

\* several files in any order, each a contiguous block of timestamps
MergeInputs ==
    \E n \in FileCounts : \E ts \in [1 .. n -> Blocks] :
      InitWith(Input(Mdtfdata, <<>>, [i \in 1 .. n |-> Levelled(ts[i], DefaultLev)],
                     MiddleYear, FALSE, NoScalar, Tas))

\* the vertical axis differs from file to file, or is missing
LevelInputs ==
    \E n \in 1 .. YearsOfFiles(MaxFiles) :
      \E levs \in [1 .. n -> LevAxes \cup {<<>>}],
         sc \in {NoScalar} \cup {Pressure(p) : p \in Levels \cup {hPa(3)}},
         dr \in {Covered(n), FirstYear} :
        InitWith(Input(Mdtfdata, <<>>,
                       [i \in 1 .. n |-> IF levs[i] = <<>> THEN Plain(DaysOf(i - 1))
                                         ELSE Levelled(DaysOf(i - 1), levs[i])],
                       dr, FALSE, sc, Tas))

FileVariants ==
    {[attrs |-> a, lat |-> DefaultLat, tas_attrs |-> <<>>] : a \in AttrChoices}
      \cup {[attrs |-> DefaultAttrs, lat |-> l, tas_attrs |-> <<>>] : l \in LatChoices}
      \cup {[attrs |-> DefaultAttrs, lat |-> DefaultLat, tas_attrs |-> t] :
               t \in TasAttrChoices}

\* attributes and non-time dimensions differ from file to file
AttrInputs ==
    \E n \in 1 .. YearsOfFiles(MaxFiles) :
      \E fv \in [1 .. n -> FileVariants], sc \in {NoScalar, Pressure(hPa(1))} :
        InitWith(Input(Mdtfdata, <<>>,
                       [i \in 1 .. n |->
                           File(Dataset(<<"time", "lev", "lat">>, DaysOf(i - 1),
                                        DefaultLev, fv[i].lat, fv[i].attrs,
                                        fv[i].tas_attrs), TRUE)],
                       Covered(n), FALSE, sc, Tas))

\* time-independent variables
StaticInputs ==
    \E n \in FileCounts, c \in Classes, dims \in {<<"lat">>, <<"time", "lat">>},
       a \in AttrChoices, t \in TasAttrChoices :
      InitWith(Input(c, <<>>,
                     [i \in 1 .. n |->
                         File(Dataset(dims, DaysOf(0), <<>>, DefaultLat,
                                      IF i = 1 THEN a ELSE DefaultAttrs,
                                      IF i = 1 THEN t ELSE <<>>), TRUE)],
                     FirstYear, TRUE, NoScalar, Tas))

\* every class, with and without caller-supplied transforms, files that can
\* and cannot be opened
VariantInputs ==
    \E n \in 1 .. YearsOfFiles(MaxFiles) :
      \E c \in Classes, fs \in {<<>>, <<Extract>>, <<Crop, Extract>>},
         rd \in [1 .. n -> BOOLEAN], static \in BOOLEAN,
         sc \in {NoScalar, Pressure(hPa(1)), Pressure(hPa(3))} :
        InitWith(Input(c, fs,
                       [i \in 1 .. n |->
                           File(Dataset(<<"time", "lev", "lat">>, DaysOf(i - 1),
                                        DefaultLev, DefaultLat, DefaultAttrs, <<>>),
                                rd[i])],
                       Covered(n), static, sc, Tas))

\* first files on which variable or calendar resolution falls back or fails
ParseInputs ==
    \E c \in Classes, static \in BOOLEAN, name \in {Tas, "ta"},
       f \in {Plain(DaysOf(0)).content, TwoVars(Plain(DaysOf(0)).content),
              LowerRankVar(Plain(DaysOf(0)).content),
              ExtraDims(Plain(DaysOf(0)).content),
              NoCalendar(Plain(DaysOf(0)).content)} :
      InitWith(Input(c, <<>>, <<[Plain(DaysOf(0)) EXCEPT !.content = f]>>,
                     FirstYear, static, NoScalar, name))

\* what a source of the calendar may hold: nothing, a name, a padded name in
\* capitals, blanks only
CalendarAttrs(name) ==
    {<<>>, <<Item(<<"calendar">>, <<name>>)>>,
     <<Item(<<"calendar">>, <<" ", "NOLEAP", " ">>)>>,
     <<Item(<<"calendar">>, <<" ">>)>>}

\* first files and conventions with every combination of calendar sources
CalendarInputs ==
    \E c \in {Samplemodeldata, Mdtfdata}, encoded \in BOOLEAN,
       ta \in CalendarAttrs("360_day"), ga \in CalendarAttrs("julian"),
       conv \in CalendarAttrs("standard") :
      LET f == Dataset(<<"time", "lat">>, DaysOf(0), <<>>, DefaultLat, ga, <<>>)
          g == [f EXCEPT !.var_attrs["time"] = ta]
      IN  InitWith([Input(c, <<>>,
                          <<File(IF encoded THEN g ELSE NoCalendar(g), TRUE)>>,
                          FirstYear, FALSE, NoScalar, Tas)
                      EXCEPT !.convention = conv])

Init ==
    \/ CalendarInputs
    \/ CropInputs
    \/ MergeInputs
    \/ LevelInputs
    \/ AttrInputs
    \/ StaticInputs
    \/ VariantInputs
    \/ ParseInputs

Next ==
    \/ Open
    \/ Parse
    \/ ProcessStatic
    \/ ProcessFile
    \/ CloseProbe
    \/ OpenMfFile
    \/ Combine
    \/ ProcessDataset
    \/ Write
    \/ Close

Spec == Init /\ [][Next]_vars

\* no preprocessor runs
NoRun ==
    /\ cls = Samplemodeldata
    /\ v = [name_in_model |-> Tas, date_range |-> [is_static |-> FALSE],
            scalar_coordinates |-> NoScalar, dest_path |-> "dest_path",
            remote_data |-> <<>>]
    /\ date_range = FirstYear
    /\ convention = <<>>
    /\ files = <<>>
    /\ functions = <<>>
    /\ ax_names = EmptyDict
    /\ calendar = PyNone
    /\ ds = NoDataset
    /\ mf = <<>>
    /\ handles = {}
    /\ dest = NoFile
    /\ pc = "idle"
    /\ err = NoError
    /\ log = <<>>

\* the time axes of the file handed to nc_crop_time_axis
NcTimeAxes == {<<>>, <<0>>, <<0, 1>>, <<1, 2>>, <<0, 1, 2>>, <<1, 2, 3>>}

\* calls of nc_crop_time_axis: the input file is there or is not, the output
\* goes to the temporary file or to out_file, in the current or in another
\* directory; no preprocessor runs
InitNc ==
    \E time \in NcTimeAxes, there \in BOOLEAN, out \in {None, "out.nc"},
       wd \in {None, "workdir"}, s \in 0 .. 2, e \in 0 .. 2 :
      /\ s <= e
      /\ nc = [NcIdle EXCEPT
                 !.in_file = "in.nc", !.out_file = out, !.working_dir = wd,
                 !.start = s, !.end = e,
                 !.orig = IF there THEN NcFile(time) ELSE Absent,
                 !.fs[IF wd = None THEN "rundir" ELSE wd]["in.nc"]
                     = IF there THEN NcFile(time) ELSE Absent]
      /\ NoRun
      /\ util = UtilIdle

NextNc ==
    \/ NcCall
    \/ NcRunCommand
    \/ NcChdir
    \/ NcRemove
    \/ NcMove
    \/ NcChdirBack

SpecNc == InitNc /\ [][NextNc]_vars

\* what the command writes to stdout
Stdouts == {<<>>, <<"a">>, <<"a", "\n">>, <<"a", "\n", "b">>, <<"a", NUL, "b", "\n">>}

\* calls of run_command: the executable can be launched or not, the command
\* exits with 0, with 1 or on signal 9 after some time, under a timeout of 0
\* (none) or more seconds
InitRun ==
    \E l \in BOOLEAN, x \in {0, 1, -9}, out \in Stdouts, d \in 0 .. 2, t \in 0 .. 2,
       io \in BOOLEAN :
      /\ util = [UtilIdle EXCEPT !.cmd.launchable = l, !.cmd.exit = x,
                                 !.cmd.stdout = out, !.cmd.duration = d,
                                 !.cmd.timeout = t, !.cmd.io_error = io]
      /\ nc = NcIdle
      /\ NoRun

NextRun ==
    \/ Popen
    \/ Communicate
    \/ Timeout
    \/ Return

SpecRun == InitRun /\ [][NextRun]_vars

\* a new PathManager
InitPaths == util = UtilIdle /\ nc = NcIdle /\ NoRun

NextPaths ==
    \/ MakeTempdir
    \/ RmTempdir
    \/ Cleanup

SpecPaths == InitPaths /\ [][NextPaths]_vars

\* ------------------------------------------------------------ properties
\* a requested bound as a timestamp of the time axis
Ordinal(dt) == DaysPerYear * dt.tm_year + dt.tm_yday

Last(s) == s[Len(s)]

\* the latest entry of the call log
LastCall == IF log = <<>> THEN Ev(None, None, AllFiles) ELSE log[Len(log)]

\* the run applies CropDateRangeFunction to a dataset with a time axis
CropApplies == Crop \in Range(functions) /\ "T" \in DOMAIN ax_names

\* the exception is the range error of crop_time_axis
IsRangeError(e) == e.type = "DataPreprocessError" /\ e.dataset = "v"

Wrote(l) == \E i \in DOMAIN l : l[i].op = "to_netcdf"

\* C1: process_dataset of CropDateRangeFunction on a dataset with a time axis
\* raises the range error exactly when the first timestamp is after the
\* start's upper bound or the last timestamp is before the end's lower bound;
\* a run that ended in the range error has written no output file.
C1_RangeErrorIffNoOverlap ==
    /\ [](pc = "failed" /\ IsRangeError(err) => ~dest.exists /\ ~Wrote(log))
    /\ [][(pc \in {"file_done", "merged"} /\ CropApplies)
            => LET time_ax == ds.coords[ax_names["T"]]
               IN  /\ (pc' = "failed" /\ IsRangeError(err'))
                        <=> \/ time_ax[1] > Ordinal(date_range.start.upper)
                            \/ Last(time_ax) < Ordinal(date_range.end.lower)
                   /\ pc' = "failed" => ~dest'.exists]_vars

\* C1 witness: a dataset that starts in time but ends before the end's lower
\* bound was handed to the crop, which raised; nothing was written
C1_Witness ==
    /\ pc = "failed" /\ IsRangeError(err)
    /\ LastCall = Ev("process_dataset", Crop, AllFiles)
    /\ ds.coords["time"][1] <= Ordinal(date_range.start.upper)
    /\ Last(ds.coords["time"]) < Ordinal(date_range.end.lower)
    /\ ~dest.exists

InRequest(t) ==
    Ordinal(date_range.start.lower) <= t /\ t <= Ordinal(date_range.end.upper)

\* C2: when process_dataset of CropDateRangeFunction succeeds, the time axis
\* of the result is exactly the input timestamps t with start-lower <= t <=
\* end-upper, in their order; a file from the middle of the first year to the
\* middle of the last, cropped to the middle year, spans exactly that year.
C2_CropKeepsInclusiveRange ==
    [][(pc \in {"file_done", "merged"} /\ CropApplies /\ pc' = "processed")
         => LET T == ax_names["T"]
            IN  /\ ds'.coords[T] = SelectSeq(ds.coords[T], InRequest)
                /\ ds'.coords[T] # <<>>
                     => /\ ds'.coords[T][1] >= Ordinal(date_range.start.lower)
                        /\ Last(ds'.coords[T]) <= Ordinal(date_range.end.upper)
                /\ (ds.coords[T] = ScenarioAxis /\ date_range = MiddleYear)
                     => ds'.coords[T] = DaysOf(1)]_vars

\* C2 witness: the scenario file was cropped to the middle year
C2_Witness ==
    /\ pc = "processed"
    /\ Len(files) = 1 /\ "T" \in DOMAIN ax_names
    /\ files[1].content.coords["time"] = ScenarioAxis
    /\ date_range = MiddleYear
    /\ LastCall = Ev("process_dataset", Crop, AllFiles)
    /\ ds.coords["time"] = DaysOf(1)

Static == v.date_range.is_static

Count(l, e) == Cardinality({i \in DOMAIN l : l[i] = e})

Ran(op, func, file) == \E i \in DOMAIN log : log[i] = Ev(op, func, file)

\* every parse and transform step of the run has been made
StepsComplete ==
    /\ Ran("parse_axes", None, 1)
    /\ "T" \in DOMAIN ax_names => Ran("parse_calendar", None, 1)
    /\ ~IsSingleFile(cls) /\ ~Static => Ran("combine", None, AllFiles)
    /\ \A k \in DOMAIN functions :
         /\ Ran("parse", functions[k], 1)
         /\ IF Static THEN Ran("process_static_dataset", functions[k], 1)
            ELSE /\ \A i \in DOMAIN files : Ran("process_file", functions[k], i)
                 /\ Ran("process_dataset", functions[k], AllFiles)

HookOps == {"parse", "process_static_dataset", "process_file", "process_dataset"}

\* no hook was invoked more often than its transform stands in the chain,
\* no merge and no write more than once
NothingRetried ==
    /\ \A i \in DOMAIN log :
         log[i].op \in HookOps => Count(log, log[i]) <= Count(functions, log[i].func)
    /\ Count(log, Ev("combine", None, AllFiles)) <= 1
    /\ Count(log, Ev("to_netcdf", None, AllFiles)) <= 1
    /\ Count(log, Ev("parse_axes", None, 1)) <= 1

\* C3: in both variants a failing step ends preprocess() with its exception:
\* nothing runs after it, no step is retried, and dest_path is not written;
\* dest_path is written only after every parse and transform step succeeded.
C3_FailurePropagatesUnwritten ==
    /\ [](pc = "failed" => err # NoError /\ ~dest.exists /\ ~Wrote(log))
    /\ [](dest.exists => err = NoError /\ pc \in {"written", "done"} /\ StepsComplete)
    /\ []NothingRetried
    /\ [][pc = "failed" => UNCHANGED vars]_vars

\* C3 witness: the per-file transform failed on one file of a multi-file run
\* after another file had been processed; nothing was written
C3_Witness ==
    /\ pc = "failed" /\ err # NoError
    /\ LastCall.op = "process_file"
    /\ \E i \in DOMAIN mf : mf[i].done
    /\ ~dest.exists

TimeOf(f) == f.content.coords["time"]

\* the time sub-ranges of the files do not overlap or interleave
DisjointSubRanges(fs) ==
    \A i, j \in DOMAIN fs :
      i # j => \/ Last(TimeOf(fs[i])) < TimeOf(fs[j])[1]
               \/ Last(TimeOf(fs[j])) < TimeOf(fs[i])[1]

\* the files agree in everything but their time axis
SameButTime(fs) ==
    \A i, j \in DOMAIN fs :
      [fs[i].content EXCEPT !.coords["time"] = <<>>]
        = [fs[j].content EXCEPT !.coords["time"] = <<>>]

MergePremise ==
    /\ ~IsSingleFile(cls) /\ ~Static
    /\ Len(v.remote_data) >= 2
    /\ \A i \in DOMAIN v.remote_data :
         /\ v.remote_data[i].readable
         /\ "time" \in DOMAIN v.remote_data[i].content.coords
    /\ DisjointSubRanges(v.remote_data)
    /\ SameButTime(v.remote_data)

RECURSIVE SumOfLengths(_)
SumOfLengths(fs) ==
    IF fs = <<>> THEN 0 ELSE Len(TimeOf(Head(fs))) + SumOfLengths(Tail(fs))

\* C4: N >= 2 files that agree in everything but time and have disjoint time
\* sub-ranges are merged, in whatever order the descriptor lists them, into a
\* dataset whose time axis is the union of theirs, strictly increasing, as
\* long as all of them together.
C4_MergedTimeAxisIsUnion ==
    (MergePremise /\ Ran("combine", None, AllFiles))
      => /\ ~(pc = "failed" /\ LastCall.op = "combine")
         /\ pc = "merged"
              => /\ ds.coords["time"]
                      = SeqOfSet(UNION {Range(TimeOf(v.remote_data[i])) :
                                           i \in DOMAIN v.remote_data})
                 /\ IsStrictlyIncreasing(ds.coords["time"])
                 /\ Len(ds.coords["time"]) = SumOfLengths(v.remote_data)

\* C4 witness: files listed later-first were merged
C4_Witness ==
    /\ pc = "merged"
    /\ MergePremise
    /\ TimeOf(v.remote_data[1])[1] > TimeOf(v.remote_data[2])[1]

\* two datasets differ in something other than the time axis
Differ(a, b) ==
    \/ Range(a.attrs) # Range(b.attrs)
    \/ a.data_vars # b.data_vars
    \/ DOMAIN a.var_attrs # DOMAIN b.var_attrs
    \/ \E n \in DOMAIN a.var_attrs \cap DOMAIN b.var_attrs :
         Range(a.var_attrs[n]) # Range(b.var_attrs[n])
    \/ DOMAIN a.coords # DOMAIN b.coords
    \/ \E d \in (DOMAIN a.coords \cap DOMAIN b.coords) \ {"time"} :
         a.coords[d] # b.coords[d]

NotMerged ==
    /\ pc \notin {"merged", "processed", "written", "done"}
    /\ ~dest.exists
    /\ \A i \in DOMAIN log : log[i].op # "process_dataset"

\* C5 as claimed: two source files that differ in an attribute, a variable or
\* a non-time dimension are never merged.
C5_SourceFilesDifferNoMerge ==
    (/\ ~IsSingleFile(cls) /\ ~Static
     /\ \E i, j \in DOMAIN files : Differ(files[i].content, files[j].content))
      => NotMerged

\* C5 as amended: once every file is opened, two per-file datasets that
\* differ, as process_file returned them, in an attribute, a variable or a
\* non-time dimension make the merge fail: process_dataset never runs and
\* nothing is written.
C5_ProcessedFilesDifferNoMerge ==
    (/\ mf # <<>>
     /\ \A i \in DOMAIN mf : mf[i].done
     /\ \E i, j \in DOMAIN mf : Differ(mf[i].ds, mf[j].ds))
      => /\ NotMerged
         /\ pc \in {"merging", "failed"}
         /\ pc = "failed" => LastCall = Ev("combine", None, AllFiles)

\* C5 witness: the merge of per-file datasets with different attributes failed
C5_Witness ==
    /\ pc = "failed"
    /\ LastCall = Ev("combine", None, AllFiles)
    /\ \E i, j \in DOMAIN mf : Range(mf[i].ds.attrs) # Range(mf[j].ds.attrs)
    /\ NotMerged

\* the run extracts a level: a pressure is requested and a Z axis was found
LevelApplies ==
    /\ Extract \in Range(functions) /\ ~Static
    /\ "pressure" \in DOMAIN v.scalar_coordinates
    /\ "Z" \in DOMAIN ax_names

Requested == v.scalar_coordinates["pressure"]

\* the level is one of the file's vertical coordinate values
Provides(f, level) ==
    ax_names["Z"] \in DOMAIN f.content.coords
      /\ level \in Range(f.content.coords[ax_names["Z"]])

\* the dataset is the selection at the level, its variable renamed
SelectedAt(d, level) ==
    /\ d.coords[ax_names["Z"]] = <<level>>
    /\ (v.name_in_model \o ToString(level \div LevScale)) \in DOMAIN d.data_vars
    /\ v.name_in_model \notin DOMAIN d.data_vars

IsLevelError(e) == e.type = "DataPreprocessError" /\ e.dataset # "v"

\* C6 as claimed: with a pressure requested and a Z axis, process_file of
\* ExtractLevelFunction fails with the level error if the requested level is
\* not among the file's vertical coordinate values, and otherwise returns the
\* selection at that level with the variable renamed to name + integer level.
C6_LevelFoundOrError ==
    LevelApplies
      => /\ \A i \in DOMAIN mf :
              mf[i].done => Provides(files[i], Requested)
                              /\ SelectedAt(mf[i].ds, Requested)
         /\ pc = "file_done"
              => Provides(files[1], Requested) /\ SelectedAt(ds, Requested)
         /\ (pc = "failed" /\ IsLevelError(err))
              => ~Provides(files[LastCall.file], Requested)

\* C6 restricted to requests of a whole number of hPa
C6_WholeLevelFoundOrError ==
    (LevelApplies /\ Requested % LevScale = 0) => C6_LevelFoundOrError

\* C7 as claimed: in a time-dependent MdtfdataPreprocessor run the crop is
\* handed data that still holds every vertical level, and the extraction is
\* handed timestamps of the requested period only.
C7_CropBeforeExtract ==
    (cls = Mdtfdata /\ LevelApplies)
      => /\ pc = "merged"
              => ds.coords[ax_names["Z"]] = files[1].content.coords[ax_names["Z"]]
         /\ \A i \in DOMAIN mf :
              mf[i].done => \A t \in Range(TimeOf(files[i])) : InRequest(t)

Before_(i, j) == i < j

\* C7 as amended: the chain of MdtfdataPreprocessor is Crop, Extract, and in
\* each phase the hooks are invoked in that order; but every process_file of
\* ExtractLevelFunction precedes process_dataset of CropDateRangeFunction:
\* the extraction is handed each file's whole time axis, and the crop is
\* handed merged data already narrowed to the requested level.
C7_ExtractBeforeCrop ==
    (cls = Mdtfdata /\ ~Static)
      => /\ SubSeq(functions, 1, 2) = <<Crop, Extract>>
         /\ \A op \in HookOps, f \in {AllFiles} \cup DOMAIN files :
              LET hooks == SelectSeq(log, LAMBDA e : e.op = op /\ e.file = f)
              IN  /\ Len(hooks) <= Len(functions)
                  /\ \A k \in DOMAIN hooks : hooks[k].func = functions[k]
         /\ \A i, j \in DOMAIN log :
              (log[i].op = "process_file" /\ log[i].func = Extract
                 /\ log[j].op = "process_dataset" /\ log[j].func = Crop) => i < j
         /\ LevelApplies
              => /\ \A i \in DOMAIN mf :
                      mf[i].done
                        => /\ mf[i].ds.coords["time"] = TimeOf(files[i])
                           /\ mf[i].ds.coords[ax_names["Z"]] = <<hPa(int(Requested))>>
                 /\ pc = "merged"
                      => ds.coords[ax_names["Z"]] = <<hPa(int(Requested))>>

\* C7 witness: files narrowed to the requested level were merged, and the
\* crop then removed timestamps of the merged data
C7_Witness ==
    /\ cls = Mdtfdata /\ LevelApplies
    /\ pc = "processed"
    /\ LastCall = Ev("process_dataset", Extract, AllFiles)
    /\ ds.coords[ax_names["Z"]] = <<hPa(int(Requested))>>
    /\ Len(files[1].content.coords[ax_names["Z"]]) > 1
    /\ Len(ds.coords["time"]) < SumOfLengths(files)

\* positions of the call log
At(op, func, file) == {i \in DOMAIN log : log[i] = Ev(op, func, file)}

\* C8: in a time-dependent multi-file run the first file's probe handle is
\* closed before any file is opened for the merge; process_file is applied
\* to every file, the first included, before the combine step; and
\* process_dataset runs once, after the combine step.
C8_MultiFileOrder ==
    (~IsSingleFile(cls) /\ ~Static)
      => /\ pc \in {"merging", "merged", "processed", "written"} => Probe \notin handles
         /\ \A i \in DOMAIN log :
              (log[i].op \in {"self.process_file", "combine"}
                 \/ (log[i].op = "open_dataset" /\ i > 1))
                => \E j \in At("close", None, 1) : j < i
         /\ \A c \in At("combine", None, AllFiles) :
              \A f \in DOMAIN files :
                /\ \E i \in At("self.process_file", None, f) : i < c
                /\ \A k \in DOMAIN functions :
                     \E i \in At("process_file", functions[k], f) : i < c
         /\ \A i \in DOMAIN log :
              log[i].op \in {"self.process_dataset", "process_dataset"}
                => \E c \in At("combine", None, AllFiles) : c < i
         /\ Cardinality(At("self.process_dataset", None, AllFiles))
              = IF pc \in {"processed", "written", "done"} THEN 1
                ELSE IF pc = "failed" /\ LastCall.op = "process_dataset" THEN 1
                ELSE 0

\* C8 witness: a run over several files with transforms came to its end
C8_Witness ==
    /\ ~IsSingleFile(cls) /\ ~Static
    /\ Len(files) >= 2 /\ functions # <<>>
    /\ pc = "done"

\* the place of a call in the order parse, per-file, whole-dataset, write
Phase(op) ==
    CASE op \in {"self.parse", "parse_axes", "parse_calendar", "parse"} -> 1
      [] op \in {"self.process_file", "process_file"} -> 2
      [] op \in {"self.process_dataset", "process_dataset"} -> 3
      [] op = "to_netcdf" -> 4
      [] OTHER -> 0

\* C9: the single-file variant with a number of files other than one fails
\* before it opens a file and writes nothing; with one file and a
\* time-dependent request it runs parse, process_file, process_dataset and
\* the write, each once and in this order.
C9_SingleFileVariant ==
    IsSingleFile(cls)
      => /\ Len(files) # 1
              => /\ pc \in {"start", "failed"}
                 /\ log = <<>> /\ handles = {} /\ ~dest.exists
                 /\ pc = "failed" => err.type = "AssertionError"
         /\ (Len(files) = 1 /\ ~Static)
              => /\ \A i, j \in DOMAIN log :
                      (i < j /\ Phase(log[i].op) # 0 /\ Phase(log[j].op) # 0)
                        => Phase(log[i].op) <= Phase(log[j].op)
                 /\ \A op \in {"self.parse", "self.process_file",
                               "self.process_dataset", "to_netcdf"} :
                      Cardinality({i \in DOMAIN log : log[i].op = op})
                        = IF pc \in {"written", "done"} THEN 1
                          ELSE Cardinality({i \in DOMAIN log : log[i].op = op})
                 /\ \A i \in DOMAIN log : log[i].op # "self.process_static_dataset"

\* C9 witness: a single-file preprocessor with two files failed at once
C9_Witness ==
    /\ IsSingleFile(cls) /\ Len(files) = 2
    /\ pc = "failed" /\ err.type = "AssertionError"
    /\ log = <<>> /\ ~dest.exists

\* o is s without its leading and trailing blanks
TrimmedFrom(o, s) ==
    /\ o = <<>> \/ (o[1] # " " /\ Last(o) # " ")
    /\ \E a, b \in 0 .. Len(s) :
         /\ a + b <= Len(s)
         /\ o = SubSeq(s, a + 1, Len(s) - b)
         /\ \A k \in 1 .. Len(s) : (k <= a \/ k > Len(s) - b) => s[k] = " "

NormalizedValue(o, i) ==
    IF i.isstr THEN o.isstr /\ TrimmedFrom(o.s, i.s) ELSE o = i

\* an attribute dict and the dict it becomes by attribute normalization
NormalizedDict(out, in) ==
    /\ \A o \in Range(out) :
         \E i \in Range(in) : NormalizedValue(o.k, i.k) /\ NormalizedValue(o.v, i.v)
    /\ \A i \in Range(in) : \E o \in Range(out) : NormalizedValue(o.k, i.k)
    /\ \A x, y \in DOMAIN out : x # y => out[x].k # out[y].k

\* C10: the single-file variant writes, for a static variable, the dataset it
\* read with the whitespace of its string attributes stripped and nothing
\* else changed; the output is a fixed point of that normalization.
C10_StaticOutputIsInput ==
    (IsSingleFile(cls) /\ Static /\ dest.exists)
      => LET in == files[1].content
             out == dest.ds
         IN  /\ out.data_vars = in.data_vars
             /\ out.coords = in.coords
             /\ out.axis = in.axis
             /\ out.decoded = in.decoded
             /\ out.time_calendar = in.time_calendar
             /\ NormalizedDict(out.attrs, in.attrs)
             /\ DOMAIN out.var_attrs = DOMAIN in.var_attrs
             /\ \A n \in DOMAIN in.var_attrs :
                  NormalizedDict(out.var_attrs[n], in.var_attrs[n])
             /\ strip_attrs(out) = out

\* C10 witness: a static file with padded attributes was written, stripped
C10_Witness ==
    /\ IsSingleFile(cls) /\ Static
    /\ pc = "done" /\ dest.exists
    /\ dest.ds.attrs # files[1].content.attrs
    /\ dest.ds.coords = files[1].content.coords

\* the transforms whose hook op was invoked, in the order of the calls
HooksInvoked(op) ==
    LET calls == SelectSeq(log, LAMBDA e : e.op = op)
    IN  [k \in DOMAIN calls |-> calls[k].func]

\* C11: in both variants a static request invokes, after parse, the
\* process_static_dataset hook of every transform once, in chain order, and
\* never a process_file or process_dataset hook; a request that is not
\* static never invokes a process_static_dataset hook.
C11_StaticPathHooks ==
    /\ Static
         => /\ HooksInvoked("process_file") = <<>>
            /\ HooksInvoked("process_dataset") = <<>>
            /\ \A op \in {"self.process_file", "self.process_dataset"} :
                 \A i \in DOMAIN log : log[i].op # op
            /\ HooksInvoked("process_static_dataset")
                 = IF pc \in {"processed", "written", "done"} THEN functions ELSE <<>>
            /\ \A i, j \in DOMAIN log :
                 (log[i].op \in {"self.parse", "parse"}
                    /\ log[j].op = "process_static_dataset") => i < j
    /\ ~Static
         => /\ HooksInvoked("process_static_dataset") = <<>>
            /\ \A i \in DOMAIN log : log[i].op # "self.process_static_dataset"

\* C11 witness: a static run with a chain of two transforms was written
C11_Witness ==
    /\ Static /\ Len(functions) >= 2
    /\ pc = "done" /\ dest.exists
    /\ HooksInvoked("process_static_dataset") = functions

\* the data variables of the first file and those of the largest rank
FirstVars == DOMAIN files[1].content.data_vars

LargestRank ==
    {n \in FirstVars :
       \A m \in FirstVars :
         Len(files[1].content.data_vars[m]) <= Len(files[1].content.data_vars[n])}

AxesParsed == Ran("parse_axes", None, 1)

\* C12: the resolved variable is the expected name if the first file has a
\* data variable of that name; otherwise the one data variable of the largest
\* rank; if several data variables share the largest rank, parse fails with
\* a ValueError before any hook of a transform is invoked, and nothing is
\* written.
C12_VariableNameResolution ==
    AxesParsed
      => /\ v.name_in_model \in FirstVars
              => "var" \in DOMAIN ax_names /\ ax_names["var"] = v.name_in_model
         /\ (v.name_in_model \notin FirstVars /\ Cardinality(LargestRank) = 1)
              => "var" \in DOMAIN ax_names /\ ax_names["var"] \in LargestRank
         /\ (v.name_in_model \notin FirstVars /\ Cardinality(LargestRank) # 1)
              => /\ pc = "failed" /\ err.type = "ValueError"
                 /\ ax_names = EmptyDict
                 /\ \A i \in DOMAIN log : log[i].op \notin HookOps \cup {"to_netcdf"}
                 /\ ~dest.exists

\* C12 witness: the expected name was not in the file, the variable of the
\* largest rank stood in for it, and the run came to its end
C12_Witness ==
    /\ AxesParsed /\ pc = "done"
    /\ v.name_in_model \notin FirstVars
    /\ Cardinality(FirstVars) = 2
    /\ ax_names["var"] = Tas

\* a run in which several variables tie for the largest rank has failed
C12_TieWitness ==
    /\ AxesParsed /\ pc = "failed"
    /\ v.name_in_model \notin FirstVars /\ Cardinality(LargestRank) = 2

\* the dimensions of the resolved variable, in the order the file lists
\* them, that no role X, Y, Z, T names
Unclassified ==
    SelectSeq(files[1].content.data_vars[ax_names["var"]],
              LAMBDA d : \A k \in {"X", "Y", "Z", "T"} \cap DOMAIN ax_names :
                           ax_names[k] # d)

AxesResolved == AxesParsed /\ "var" \in DOMAIN ax_names

\* C13 as claimed: the tags W0, W1, ... are assigned to the unclassified
\* dimensions in the order in which the dataset lists them, so that equal
\* inputs always get equal assignments.
C13_TagsFollowDimensionOrder ==
    AxesResolved
      => \A i \in DOMAIN Unclassified :
           /\ ("W" \o ToString(i - 1)) \in DOMAIN ax_names
           /\ ax_names["W" \o ToString(i - 1)] = Unclassified[i]

\* the calendar sources of the first file in the order time coordinate, time
\* variable's attributes, global attributes, convention; each holds a
\* calendar name or nothing
NameIn(dict_) ==
    LET held == {i \in DOMAIN dict_ :
                   /\ dict_[i].k.isstr /\ dict_[i].v.isstr
                   /\ SelectSeq(dict_[i].k.s, LAMBDA ch : ch # " ") = <<"calendar">>}
    IN  IF held = {} THEN <<>>
        ELSE lower(SelectSeq(dict_[CHOOSE i \in held : TRUE].v.s, LAMBDA ch : ch # " "))

CalendarSources ==
    LET f == files[1].content
        time == ax_names["T"]
    IN  <<IF f.time_calendar.isstr THEN f.time_calendar.s ELSE <<>>,
          NameIn(f.var_attrs[time]), NameIn(f.attrs), NameIn(convention)>>

Providing == {i \in DOMAIN CalendarSources : CalendarSources[i] # <<>>}

CalendarParsed == Ran("parse_calendar", None, 1) /\ files[1].content.coords[ax_names["T"]] # <<>>

\* C14 as claimed: the calendar is the name held by the first of the sources
\* time coordinate, time variable's attributes, global attributes, convention
\* that holds one; if none holds one, parse fails with a ValueError and the
\* calendar is never left unset or empty.
C14_CalendarFromFirstSource ==
    CalendarParsed
      => IF Providing = {}
         THEN pc = "failed" /\ err.type = "ValueError"
         ELSE /\ calendar = Str(CalendarSources[CHOOSE i \in Providing :
                                                  \A j \in Providing : i <= j])
              /\ pc = "failed" => err.type # "ValueError"

\* the calendar in use is the name held by the first source that holds one,
\* whenever some source does
C14_OrderOfSources ==
    (CalendarParsed /\ Providing # {})
      => calendar = Str(CalendarSources[CHOOSE i \in Providing :
                                          \A j \in Providing : i <= j])

\* a per-file or whole-dataset hook of a transform has been invoked
TransformRan ==
    \E i \in DOMAIN log : log[i].op \in {"process_file", "process_dataset"}

\* C15 as claimed: when the first file has a time axis, the calendar is a
\* usable calendar name, neither None nor empty, whenever a process_file or
\* process_dataset hook of a transform has run.
C15_CalendarBeforeTransforms ==
    (TransformRan /\ "T" \in DOMAIN ax_names) => Truthy(calendar)

\* the calendar is not None whenever such a hook has run on data with a
\* time axis
C15_CalendarNotNone ==
    (TransformRan /\ "T" \in DOMAIN ax_names) => calendar # PyNone

\* the diagnostic texts of the resolution, calendar, range and level failures
Diagnostics ==
    {"Couldn't determine var", "No calendar info in file.",
     "dataset start is after range start", "dataset end is before range end",
     "Pressure axis of file didn't provide requested level"}

\* preprocess() ended with one of these failures
Aborted == pc = "failed" /\ (err.msg \in Diagnostics \/ err.dataset \in Diagnostics)

\* C16 as claimed: every resolution, calendar, range or level failure that
\* ends preprocess() has the variable descriptor in its dataset field and the
\* diagnostic text in its message.
C16_ErrorsCarryVariable ==
    Aborted => err.dataset = "v" /\ err.msg \in Diagnostics

\* the range failures of crop_time_axis do carry the variable descriptor
C16_RangeErrorsCarryVariable ==
    (Aborted /\ err.msg \in {"dataset start is after range start",
                             "dataset end is before range end"})
      => err.type = "DataPreprocessError" /\ err.dataset = "v"

NcDir == nc.fs[nc.working_dir]

\* the call crops in place: out_file was None and the input file was there
InPlace == nc.move_back /\ nc.orig.exists

\* C18 as claimed: an in-place call of nc_crop_time_axis leaves no temporary
\* file on any way out: after a call that returned, the input path holds the
\* cropped data and MDTF_temp.nc is gone; after a call that raised,
\* MDTF_temp.nc is not there either and the input file still is.
C18_NoTemporaryFileLeft ==
    InPlace
      => /\ nc.pc = "returned"
              => /\ NcDir["in.nc"] = NcFile(ncks_hyperslab(nc.orig.time, nc.start, nc.end))
                 /\ ~NcDir[Temp].exists
         /\ nc.pc = "raised"
              => /\ ~NcDir[Temp].exists
                 /\ NcDir["in.nc"] = nc.orig

\* what a call that returned leaves behind
C18_ReturnedLeavesCroppedInput ==
    (InPlace /\ nc.pc = "returned")
      => /\ NcDir["in.nc"] = NcFile(ncks_hyperslab(nc.orig.time, nc.start, nc.end))
         /\ ~NcDir[Temp].exists

Roles == {"X", "Y", "Z", "T"}

\* the tags W0 .. W(k-1)
WTags(k) == {"W" \o ToString(i) : i \in 0 .. k - 1}

\* the mapping names the variable, names a dimension of it for each role it
\* holds, and tags the other dimensions W0 .. W(k-1), one tag each
WellFormedAxes ==
    LET dims == Range(files[1].content.data_vars[ax_names["var"]])
        tags == WTags(Len(Unclassified))
    IN  /\ ax_names["var"] \in DOMAIN files[1].content.data_vars
        /\ DOMAIN ax_names \subseteq {"var"} \cup Roles \cup tags
        /\ tags \subseteq DOMAIN ax_names
        /\ \A k \in Roles \cap DOMAIN ax_names : ax_names[k] \in dims
        /\ {ax_names[w] : w \in tags} = Range(Unclassified)
        /\ \A k, l \in DOMAIN ax_names \ {"var"} : k # l => ax_names[k] # ax_names[l]

\* C19: once parse_axes has succeeded the mapping holds 'var', at most one
\* dimension for each of X, Y, Z, T and the tags W0 .. W(k-1) for the k other
\* dimensions of the variable; parse_axes runs once, on the first file, and
\* no later step of the run changes the mapping.
C19_AxisMappingBuiltOnce ==
    /\ [](AxesResolved => WellFormedAxes)
    /\ [](Count(log, Ev("parse_axes", None, 1)) <= 1
            /\ \A i \in DOMAIN log : log[i].op = "parse_axes" => log[i].file = 1)
    /\ [][AxesResolved => ax_names' = ax_names]_vars

\* C19 witness: a run on a variable with two other dimensions came to its end
C19_Witness ==
    /\ AxesResolved /\ pc = "done"
    /\ Len(Unclassified) = 2
    /\ {"var", "T", "Y", "W0", "W1"} \subseteq DOMAIN ax_names

\* a run over several files went through the merge with the mapping of the
\* first file
C19_MultiFileWitness ==
    /\ AxesResolved /\ pc = "done" /\ Len(files) = 2
    /\ \A i \in DOMAIN mf : mf[i].done

\* the datasets hold the same variables on the same coordinates
SameData(a, b) == a.data_vars = b.data_vars /\ a.coords = b.coords /\ a.axis = b.axis

\* as SameData, the time coordinate left aside
SameButTimeAxis(a, b) ==
    /\ a.data_vars = b.data_vars /\ a.axis = b.axis
    /\ DOMAIN a.coords = DOMAIN b.coords
    /\ \A d \in DOMAIN a.coords : d # "time" => a.coords[d] = b.coords[d]

\* both conditions of the extraction hold
ExtractActs == "pressure" \in DOMAIN v.scalar_coordinates /\ "Z" \in DOMAIN ax_names

ExtractInChain == Extract \in Range(functions) /\ Range(functions) \subseteq {Crop, Extract}

\* C20: in a run whose chain holds ExtractLevelFunction, a file's dataset
\* comes out of process_file with its variables and coordinates unchanged
\* unless a pressure is requested and the mapping has Z; and the parse, the
\* process_static_dataset and the process_dataset phase never change the
\* variables or the levels of the dataset they are handed.
C20_ExtractOnlyPerFile ==
    /\ []((ExtractInChain /\ ~ExtractActs)
            => /\ \A i \in DOMAIN mf : mf[i].done => SameData(mf[i].ds, files[i].content)
               /\ pc = "file_done" => SameData(ds, files[1].content))
    /\ [][(ExtractInChain /\ pc = "opened" /\ pc' = "parsed") => SameData(ds', ds)]_vars
    /\ [][(ExtractInChain /\ pc = "parsed" /\ pc' = "processed") => ds' = ds]_vars
    /\ [][(ExtractInChain /\ pc \in {"file_done", "merged"} /\ pc' = "processed")
            => SameButTimeAxis(ds', ds)]_vars

\* C20 witness: a pressure was requested, the file has no Z axis, the run of
\* a chain with ExtractLevelFunction came to its end with the file's variable
C20_Witness ==
    /\ ExtractInChain /\ AxesResolved
    /\ "pressure" \in DOMAIN v.scalar_coordinates /\ "Z" \notin DOMAIN ax_names
    /\ pc = "done"
    /\ \A i \in DOMAIN mf : SameData(mf[i].ds, files[i].content)
    /\ SameButTimeAxis(dest.ds, files[1].content)

\* the positions in the call log of the calls of op
Positions(op) == {i \in DOMAIN log : log[i].op = op}

\* the parse phase has come to its end without an exception
ParseDone == pc \notin {"start", "opened", "idle"} /\ Positions("parse_axes") # {}
               /\ ~(pc = "failed" /\ LastCall.op \in {"parse_axes", "parse_calendar", "parse"})

\* C21: in every run parse resolves the axes first, then the calendar if and
\* only if the mapping has T, then invokes the parse hook of every transform
\* once in chain order, the variant's default transforms first and the
\* caller's after them; and no process_static_dataset, process_file or
\* process_dataset hook is invoked before the parse phase is complete.
C21_ParsePhaseOrder ==
    /\ SubSeq(functions, 1, Len(_default_functions(cls))) = _default_functions(cls)
    /\ \A i \in Positions("parse_axes"), j \in Positions("parse_calendar") : i < j
    /\ \A i \in Positions("parse_axes") \cup Positions("parse_calendar"),
          j \in Positions("parse") : i < j
    /\ \A i \in Positions("parse_axes") \cup Positions("parse_calendar")
                  \cup Positions("parse"),
          j \in Positions("process_static_dataset") \cup Positions("process_file")
                  \cup Positions("process_dataset") : i < j
    /\ Cardinality(Positions("parse_axes")) <= 1
    /\ Cardinality(Positions("parse_calendar")) <= 1
    /\ Positions("parse_calendar") # {} => "T" \in DOMAIN ax_names
    /\ HooksInvoked("parse") \in {<<>>, functions}
    /\ ParseDone
         => /\ HooksInvoked("parse") = functions
            /\ "T" \in DOMAIN ax_names <=> Positions("parse_calendar") # {}
    /\ (Positions("process_static_dataset") \cup Positions("process_file")
          \cup Positions("process_dataset")) # {} => ParseDone

\* C21 witness: a run with a time axis and a caller's transform after the
\* default ones came to its end
C21_Witness ==
    /\ pc = "done" /\ "T" \in DOMAIN ax_names
    /\ Len(functions) > Len(_default_functions(cls))
    /\ functions # _default_functions(cls) \o _default_functions(cls)
    /\ HooksInvoked("parse") = functions

\* the lines of a text: its maximal runs without a newline, the empty run
\* after a final newline left out
IsLines(lines, text) ==
    /\ \A k \in DOMAIN lines : \A i \in DOMAIN lines[k] : lines[k][i] # "\n"
    /\ Len(lines) = Cardinality({i \in DOMAIN text : text[i] = "\n"})
                      + (IF text # <<>> /\ text[Len(text)] # "\n" THEN 1 ELSE 0)
    /\ SelectSeq(text, LAMBDA ch : ch # "\n") = Flatten(lines)

\* C22: run_command returns the stdout lines only if the command was
\* launched and exited with 0; a non-zero exit code, an executable that
\* cannot be launched and a positive timeout that runs out all end in
\* CalledProcessError, the last after the process was killed; with timeout 0
\* no alarm is ever armed.
C22_RunCommandOutcome ==
    LET c == util.cmd
    IN  /\ c.pc = "returned"
             => /\ c.launchable /\ c.exit = 0 /\ c.proc = "exited"
                /\ ~c.fired /\ ~c.killed
                /\ (\A i \in DOMAIN c.stdout : c.stdout[i] # NUL)
                     => IsLines(c.result, c.stdout)
        /\ c.pc = "raised" => c.err = "CalledProcessError"
        /\ c.pc \in {"raised", "returned"}
             => /\ (~c.launchable \/ c.fired \/ c.io_error \/ c.exit # 0)
                      <=> c.pc = "raised"
                /\ (c.launchable /\ c.timeout > 0 /\ c.duration > c.timeout)
                      => c.fired
                /\ c.fired => c.killed /\ c.proc = "killed" /\ c.retcode = ETIME
        /\ c.timeout = 0 => ~c.alarm /\ ~c.fired
        /\ c.fired => c.timeout > 0 /\ c.duration >= c.timeout

\* C22 witness: a command that would have exited with 0 ran into its
\* timeout, was killed, and the call raised
C22_Witness ==
    /\ util.cmd.pc = "raised" /\ util.cmd.fired /\ util.cmd.killed
    /\ util.cmd.exit = 0 /\ util.cmd.timeout > 0

\* a call returned the lines of its command
C22_ReturnWitness ==
    /\ util.cmd.pc = "returned" /\ Len(util.cmd.result) = 2

\* C23: after cleanup() the registry of temporary directories is empty and
\* no directory that make_tempdir made is left, however many were
\* outstanding.
C23_CleanupRemovesAll ==
    util.paths.pc = "cleaned"
      => util.paths._temp_dirs = <<>> /\ util.paths.made \cap util.paths.dirs = {}

\* what cleanup() does: of the directories outstanding, those at every
\* second place of the registry stay registered and on disk
C23_CleanupSkipsEverySecond ==
    [][Cleanup =>
         /\ util'.paths._temp_dirs =
              [k \in 1 .. Len(util.paths._temp_dirs) \div 2 |-> util.paths._temp_dirs[2 * k]]
         /\ util'.paths.dirs =
              {util'.paths._temp_dirs[k] : k \in DOMAIN util'.paths._temp_dirs}]_vars

\* cleanup() was called with two directories outstanding
C23_Witness ==
    /\ util.paths.pc = "cleaned" /\ Len(util.paths._temp_dirs) = 1
    /\ Cardinality(util.paths.made) = 2

\* the process_file hooks invoked on file f before position j of the log
FileHooksBefore(f, j) ==
    LET hooks == SelectSeq(SubSeq(log, 1, j - 1),
                           LAMBDA e : e.op = "process_file" /\ e.file = f)
    IN  [k \in DOMAIN hooks |-> hooks[k].func]

\* C24: in a time-dependent run of either variant, when process_dataset is
\* entered every transform's process_file hook has run on every file, in
\* chain order, and none runs afterwards; so the dataset handed to
\* process_dataset holds only the level ExtractLevelFunction selected per
\* file and still every timestamp of every file, although the chain lists
\* CropDateRangeFunction first.
C24_PerFileBeforeDataset ==
    ~Static
      => /\ \A j \in DOMAIN log :
              log[j].op \in {"self.process_dataset", "process_dataset"}
                => /\ files # <<>>
                   /\ \A f \in DOMAIN files : FileHooksBefore(f, j) = functions
                   /\ \A i \in DOMAIN log :
                        log[i].op \in {"self.process_file", "process_file"} => i < j
         /\ pc \in {"file_done", "merged"}
              => /\ \A f \in DOMAIN files : FileHooksBefore(f, Len(log) + 1) = functions
                 /\ HooksInvoked("process_dataset") = <<>>
                 /\ "T" \in DOMAIN ax_names
                      => \A f \in DOMAIN files :
                           Range(TimeOf(files[f])) \subseteq Range(ds.coords[ax_names["T"]])
                 /\ LevelApplies => ds.coords[ax_names["Z"]] = <<hPa(int(Requested))>>

\* C24 witness: with the chain Crop, Extract, several files each narrowed to
\* the requested level were merged and the crop then removed timestamps
C24_Witness ==
    /\ cls = Mdtfdata /\ LevelApplies /\ Len(files) >= 2
    /\ functions = <<Crop, Extract>>
    /\ pc = "processed"
    /\ \A f \in DOMAIN files : FileHooksBefore(f, Len(log) + 1) = functions
    /\ HooksInvoked("process_dataset") = functions
    /\ Len(files[1].content.coords[ax_names["Z"]]) > 1
    /\ Len(ds.coords["time"]) < SumOfLengths(files)

\* C24 witness: the single-file variant, too, ran both phases
C24_SingleFileWitness ==
    /\ IsSingleFile(cls) /\ ~Static /\ functions # <<>>
    /\ pc = "processed"
    /\ FileHooksBefore(1, Len(log) + 1) = functions
    /\ HooksInvoked("process_dataset") = functions

\* a static request of the multi-file variant for a variable of several files
StaticOfSeveralFiles == ~IsSingleFile(cls) /\ Static /\ Len(files) > 1

\* C25: in the multi-file variant a static request over more than one file
\* fails: once the first file is parsed the run aborts with the assertion on
\* the number of files, no process_static_dataset hook is ever invoked and
\* the destination is never written; a static request gets past that point
\* only with exactly one file.
C25_StaticNeedsOneFile ==
    /\ [](StaticOfSeveralFiles
            => /\ pc \in {"start", "opened", "parsed", "failed"}
               /\ \A i \in DOMAIN log :
                    /\ log[i].op \notin {"self.process_static_dataset",
                                         "process_static_dataset", "to_netcdf"}
                    /\ log[i].file \in {1, AllFiles}
               /\ ~dest.exists /\ dest.writes = 0)
    /\ []((~IsSingleFile(cls) /\ Static /\ pc \in {"processed", "written", "done"})
            => Len(files) = 1)
    /\ [][(StaticOfSeveralFiles /\ pc = "parsed")
            => /\ pc' = "failed"
               /\ err'.type = "AssertionError"
               /\ log' = log /\ dest' = dest]_vars

\* C25 witness: the first of two files was parsed, and the run failed on the
\* assertion
C25_Witness ==
    /\ StaticOfSeveralFiles
    /\ pc = "failed" /\ err.type = "AssertionError"
    /\ Positions("parse_axes") # {}
    /\ LastCall.op \in {"parse_axes", "parse_calendar", "parse"}

\* C25 witness: with one file the static request is written
C25_OneFileWitness ==
    /\ ~IsSingleFile(cls) /\ Static /\ Len(files) = 1
    /\ pc = "done" /\ dest.exists

\* the datasets a run holds for transforming or writing
Current ==
    (IF pc \in {"parsed", "file_done", "merged", "processed", "written"}
     THEN {ds} ELSE {})
      \cup {mf[i].ds : i \in {k \in DOMAIN mf : mf[k].done}}

\* C26 as claimed: once the axes are resolved, ax_names['var'] names a data
\* variable of the dataset being transformed, of every processed file, and
\* of what is written, also after ExtractLevelFunction renamed the variable.
C26_VarRolePresent ==
    AxesResolved
      => /\ \A d \in Current : ax_names["var"] \in DOMAIN d.data_vars
         /\ dest.exists => ax_names["var"] \in DOMAIN dest.ds.data_vars

\* what the code keeps: the variable is present under the name of role
\* 'var', or, once the level was extracted, under that name followed by the
\* level, and then no longer under the name of role 'var'
C26_VarRoleOrRenamed ==
    AxesResolved
      => \A d \in Current \cup (IF dest.exists THEN {dest.ds} ELSE {}) :
           LET renamed == ax_names["var"] \o ToString(int(Requested))
               extracted == LevelApplies
                              /\ d.coords[ax_names["Z"]] = <<hPa(int(Requested))>>
                              /\ renamed \in DOMAIN d.data_vars
           IN  ax_names["var"] \in DOMAIN d.data_vars <=> ~extracted

\* the dataset written after an extraction has no variable of the name
\* stored under role 'var'
C26_Witness ==
    /\ AxesResolved /\ LevelApplies
    /\ pc = "done" /\ dest.exists
    /\ ax_names["var"] \notin DOMAIN dest.ds.data_vars
    /\ (ax_names["var"] \o ToString(int(Requested))) \in DOMAIN dest.ds.data_vars

====
